---- MODULE Spec2Model ----
(***************************************************************************)
(* TCPCL v4 session of the BPv7 stack (bpv7/agent/tcpcl.py).               *)
(*                                                                         *)
(* One TCPCLConnection is modelled with its peer as the environment: the   *)
(* peer chooses the contact header, the SESS_INIT and every later frame.   *)
(* The threads are the thread that runs start(), the reader thread         *)
(* (_receive_loop), the threads that call send_bundle, and the thread      *)
(* that calls stop().  sock.sendall of one message is one step; a          *)
(* blocking read is the point where a thread waits for the peer.           *)
(***************************************************************************)
EXTENDS Integers, Sequences, FiniteSets, TLC

(* ------------------------------ bounds -------------------------------- *)

\* caller threads of send_bundle
NThreads == 2
\* send_bundle calls over the life of the session
MaxCalls == 2
\* frames the peer sends after the handshake
MaxRx == 3
\* the largest MRU advertised; it stands for the default 2^64-1, above the
\* size of every bundle of the model
MaxMRU == 16

\* Extension blocks on a bundle, and the largest block number
\* a caller gives a block.
MaxExtensions == 2
MaxBlockNumber == 3

\* Handlers registered with a layer, and sessions a layer constructs.
MaxHandlers == 2
MaxSessions == 2
MaxFillChunk == 128
MaxInbound == 3
MaxSendParts == 2
MaxWrites == 1
MaxCborNodes == 3
MaxCborBytes == 3
MaxCrcData == 3

(* ------------------------- program constants -------------------------- *)

TCPCL_MAGIC == "dtn!"
TCPCL_VERSION == 4

XFER_SEGMENT == 1
XFER_ACK == 2
XFER_REFUSE == 3
KEEPALIVE == 4
SESS_TERM == 5
MSG_REJECT == 6
SESS_INIT == 7

END == 1
START == 2

REASON_UNKNOWN == 0

\* first and last byte of an encoded bundle: indefinite-length array, break
PAYLOAD == 1
PREVIOUS_NODE == 6
BUNDLE_AGE == 7
HOP_COUNT == 10
CRC16 == 1
BP_VERSION == 7
IPN == 2
DefaultLifetime == 3600000
IS_FRAGMENT == 1
TABLE_SIZE == 256
DTN == 1
UNSIGNED_INT == 0
NEGATIVE_INT == 1
BYTE_STRING == 2
TEXT_STRING == 3
ARRAY == 4
MAP == 5
SIMPLE == 7
SIMPLE_FALSE == 20
SIMPLE_TRUE == 21
SIMPLE_NULL == 22
AI_ONE_BYTE == 24
AI_TWO_BYTES == 25
AI_FOUR_BYTES == 26
AI_EIGHT_BYTES == 27
AI_INDEFINITE == 31
CRC32C == 2
CRC16_POLY == 33800
CRC16_INIT == 65535
CRC16_XOR_OUT == 65535
CRC16_RESIDUE == 3911

INDEFINITE_ARRAY == 159
BREAK == 255

(* ------------------------------ bundles ------------------------------- *)

\* Bundles are named by the one byte that stands for their encoded blocks.
Bundles == {1, 2}

DecodeError == 0

\* Bundle.encode: 0x9F, the blocks, 0xFF.
BundleEncode(b) == <<INDEFINITE_ARRAY, b, BREAK>>

\* Bundle.decode: the bundle, or DecodeError where the code raises.
BundleDecode(data) ==
    IF /\ Len(data) = 3
       /\ data[1] = INDEFINITE_ARRAY
       /\ data[3] = BREAK
       /\ data[2] \in Bundles
    THEN data[2]
    ELSE DecodeError

(* ------------------------- bundles and blocks ------------------------- *)

\* EndpointID.ipn(node, service)
Ipn(node, service) == [scheme |-> IPN, ssp |-> <<node, service>>]

\* EndpointID.to_cbor_value: (scheme code, ssp).
EidToCborValue(e) == <<e.scheme, e.ssp>>

\* EndpointID.from_cbor_value: <<eid>>, or <<>> where the code raises.
EidFromCborValue(v) ==
    IF Len(v) = 2 /\ v[1] = IPN /\ Len(v[2]) = 2
    THEN <<Ipn(v[2][1], v[2][2])>>
    ELSE <<>>

\* The PrimaryBlock Bundle.create builds: report_to defaults to the source.
PrimaryBlock(destination, source) ==
    [version |-> BP_VERSION, flags |-> 0, crc_type |-> CRC16,
     destination |-> destination, source |-> source, report_to |-> source,
     creation_timestamp |-> <<1, 0>>, lifetime_ms |-> DefaultLifetime]

\* PayloadBlock(...): __post_init__ forces block number 1.
PayloadBlock(data) ==
    [block_type |-> PAYLOAD, block_number |-> 1, flags |-> 0,
     crc_type |-> CRC16, data |-> data]

\* A PreviousNodeBlock, BundleAgeBlock or HopCountBlock with default fields.
ExtensionBlock(block_type, block_number) ==
    [block_type |-> block_type, block_number |-> block_number, flags |-> 0,
     crc_type |-> CRC16,
     data |-> IF block_type = HOP_COUNT THEN <<255, 0>>
              ELSE IF block_type = BUNDLE_AGE THEN <<0>>
              ELSE <<1, 0>>]

\* Bundle.create
BundleCreate(destination, source, payload) ==
    [primary |-> PrimaryBlock(destination, source),
     payload |-> PayloadBlock(payload),
     extensions |-> <<>>]

\* The block numbers add_extension sees in use.
UsedNumbers(B) ==
    {0, 1} \cup {B.extensions[i].block_number : i \in 1..Len(B.extensions)}

\* Bundle.add_extension: the bundle afterwards, and whether ValueError was
\* raised.
BundleAddExtension(B, block) ==
    IF block.block_type = PAYLOAD
    THEN [bundle |-> B, raised |-> TRUE]
    ELSE LET used == UsedNumbers(B)
             n == IF block.block_number <= 1
                  THEN (CHOOSE m \in used : \A k \in used : k <= m) + 1
                  ELSE block.block_number
         IN  [bundle |-> [B EXCEPT !.extensions =
                             Append(@, [block EXCEPT !.block_number = n])],
              raised |-> FALSE]

\* PrimaryBlock.to_cbor_array
PrimaryToCborArray(p) ==
    <<p.version, p.flags, p.crc_type, EidToCborValue(p.destination),
      EidToCborValue(p.source), EidToCborValue(p.report_to),
      p.creation_timestamp, p.lifetime_ms>>

\* PrimaryBlock.from_cbor_array: <<primary>>, or <<>> where the code raises.
PrimaryFromCborArray(arr) ==
    IF Len(arr) < 8 \/ arr[1] # BP_VERSION
       \/ EidFromCborValue(arr[4]) = <<>>
       \/ EidFromCborValue(arr[5]) = <<>>
       \/ EidFromCborValue(arr[6]) = <<>>
       \/ Len(arr[7]) # 2
    THEN <<>>
    ELSE <<[version |-> BP_VERSION, flags |-> arr[2], crc_type |-> arr[3],
            destination |-> EidFromCborValue(arr[4])[1],
            source |-> EidFromCborValue(arr[5])[1],
            report_to |-> EidFromCborValue(arr[6])[1],
            creation_timestamp |-> arr[7], lifetime_ms |-> arr[8]]>>

\* CanonicalBlock.to_cbor_array
BlockToCborArray(b) ==
    <<b.block_type, b.block_number, b.flags, b.crc_type, b.data>>

\* PayloadBlock.from_cbor_array: <<payload>>, or <<>> where the code raises.
PayloadFromCborArray(arr) ==
    IF Len(arr) < 5 \/ arr[1] # PAYLOAD \/ arr[2] # 1
    THEN <<>>
    ELSE <<[block_type |-> PAYLOAD, block_number |-> 1, flags |-> arr[3],
            crc_type |-> arr[4], data |-> arr[5]]>>

\* Bundle.encode: the indefinite-length array start, the array of the
\* primary block, of the payload block, of each extension, and the break.
EncodeBlocks(B) ==
    <<<<INDEFINITE_ARRAY>>, PrimaryToCborArray(B.primary),
      BlockToCborArray(B.payload)>>
    \o [i \in 1..Len(B.extensions) |-> BlockToCborArray(B.extensions[i])]
    \o <<<<BREAK>>>>

\* Bundle.decode: <<bundle>>, or <<>> where the code raises.  The arrays
\* that are not the payload are collected in a local list, and the bundle
\* is built from the primary and the payload (line 257).
DecodeBlocks(data) ==
    IF Len(data) < 2 \/ data[1] # <<INDEFINITE_ARRAY>>
       \/ data[Len(data)] # <<BREAK>>
    THEN <<>>
    ELSE LET blocks == SubSeq(data, 2, Len(data) - 1)
             payloads == {i \in 2..Len(blocks) : blocks[i][1] = PAYLOAD}
         IN  IF Len(blocks) < 2
                \/ PrimaryFromCborArray(blocks[1]) = <<>>
                \/ Cardinality(payloads) # 1
             THEN <<>>
             ELSE LET i == CHOOSE j \in payloads : TRUE
                  IN  IF PayloadFromCborArray(blocks[i]) = <<>>
                      THEN <<>>
                      ELSE <<[primary |-> PrimaryFromCborArray(blocks[1])[1],
                              payload |-> PayloadFromCborArray(blocks[i])[1],
                              extensions |-> <<>>]>>

(* --------------------------- wire messages ---------------------------- *)

HasFlag(flags, bit) == (flags \div bit) % 2 = 1

\* ContactHeader(): the 6 bytes magic, version, flags.
ContactHeader == [magic |-> TCPCL_MAGIC, version |-> TCPCL_VERSION, flags |-> 0]

\* ContactHeader.decode without the version check.
ContactHeaderValid_MagicOnly(h) == h.magic = TCPCL_MAGIC

\* ContactHeader.decode: the checks that raise ValueError.
ContactHeaderValid(h) == h.magic = TCPCL_MAGIC /\ h.version = TCPCL_VERSION

\* SessionInit(node_id=str(local_eid)) with the dataclass defaults.
LocalEid == "ipn:1.1"
SessionInit(node) ==
    [type |-> SESS_INIT, keepalive_interval |-> 30, segment_mru |-> MaxMRU,
     transfer_mru |-> MaxMRU, node_id |-> node]

\* EndpointID.parse: the strings it accepts.
EidParses(s) == s \in {"dtn:none", "ipn:1.1", "ipn:2.1"}

\* A frame after the handshake, as _recv_message reads it.
Frame(type, flags, id, data) ==
    [type |-> type, flags |-> flags, transfer_id |-> id, data |-> data]

\* The XFER_SEGMENT send_bundle builds: START|END, the whole bundle.
XferSegment(id, data) ==
    [type |-> XFER_SEGMENT, flags |-> START + END, transfer_id |-> id,
     length |-> Len(data), data |-> data]

\* _send_xfer_ack's message.
XferAck(id, length) ==
    [type |-> XFER_ACK, flags |-> 0, transfer_id |-> id, length |-> length]

\* _send_session_term's message.
SessTerm(reason) == [type |-> SESS_TERM, flags |-> 0, reason |-> reason]

IsMsg(w, type) == "type" \in DOMAIN w /\ w.type = type

\* _recv_message: the message types it returns; any other raises ValueError.
RecvMessageKnown(type) ==
    type \in {SESS_INIT, XFER_SEGMENT, XFER_ACK, KEEPALIVE, SESS_TERM}

(* --------------------------- reassembly ------------------------------- *)

EmptyMap == [x \in {} |-> <<>>]

MapPut(p, id, v) == [x \in DOMAIN p \cup {id} |-> IF x = id THEN v ELSE p[x]]
MapPop(p, id) == [x \in DOMAIN p \ {id} |-> p[x]]

\* START that keeps the buffer a transfer_id already has (setdefault).
StartBuffer_KeepExisting(p, f) ==
    IF HasFlag(f.flags, START) /\ f.transfer_id \notin DOMAIN p
    THEN MapPut(p, f.transfer_id, <<>>)
    ELSE p

\* if flags & START: self._pending_transfers[transfer_id] = bytearray()
StartBuffer(p, f) ==
    IF HasFlag(f.flags, START) THEN MapPut(p, f.transfer_id, <<>>) ELSE p

\* if transfer_id in self._pending_transfers: ....extend(segment_data)
AppendData(p, f) ==
    IF f.transfer_id \in DOMAIN p
    THEN MapPut(p, f.transfer_id, p[f.transfer_id] \o f.data)
    ELSE p

\* A delivery that overtakes the earlier ones.
Deliver_Front(d, bundle_data) ==
    IF BundleDecode(bundle_data) # DecodeError
    THEN <<BundleDecode(bundle_data)>> \o d
    ELSE d

\* on_bundle_received(bundle) for a bundle that decoded; nothing otherwise.
Deliver(d, bundle_data) ==
    IF BundleDecode(bundle_data) # DecodeError
    THEN Append(d, BundleDecode(bundle_data))
    ELSE d

\* _handle_xfer_segment without the try of lines 355-362: a decode error
\* leaves the method as an exception.
HandleXferSegment_NoExcept(p, d, f) ==
    LET p2 == AppendData(StartBuffer(p, f), f)
        id == f.transfer_id
    IN  IF ~HasFlag(f.flags, END)
        THEN [pending |-> p2, sent |-> <<>>, decoded |-> <<>>,
              delivered |-> d, raised |-> FALSE]
        ELSE IF id \notin DOMAIN p2
        THEN [pending |-> p2, sent |-> <<>>, decoded |-> <<>>,
              delivered |-> d, raised |-> TRUE]
        ELSE [pending |-> MapPop(p2, id),
              sent |-> <<XferAck(id, Len(p2[id]))>>,
              decoded |-> <<[transfer_id |-> id, data |-> p2[id]]>>,
              delivered |-> Deliver(d, p2[id]),
              raised |-> BundleDecode(p2[id]) = DecodeError]

\* _handle_xfer_segment: the new reassembly map, the messages sent, the byte
\* strings handed to Bundle.decode, the deliveries, and whether pop raised
\* KeyError.
HandleXferSegment(p, d, f) ==
    LET p2 == AppendData(StartBuffer(p, f), f)
        id == f.transfer_id
    IN  IF ~HasFlag(f.flags, END)
        THEN [pending |-> p2, sent |-> <<>>, decoded |-> <<>>,
              delivered |-> d, raised |-> FALSE]
        ELSE IF id \notin DOMAIN p2
        THEN [pending |-> p2, sent |-> <<>>, decoded |-> <<>>,
              delivered |-> d, raised |-> TRUE]
        ELSE [pending |-> MapPop(p2, id),
              sent |-> <<XferAck(id, Len(p2[id]))>>,
              decoded |-> <<[transfer_id |-> id, data |-> p2[id]]>>,
              delivered |-> Deliver(d, p2[id]),
              raised |-> FALSE]

(* -------------------- primary block fragment fields ------------------- *)

\* Python's None in a field that is an integer otherwise.
NoneValue == -1

\* PrimaryBlock.__post_init__, the fragment validation: TRUE when the block
\* is accepted, FALSE where the code raises ValueError.
PrimaryPostInit(flags, fragment_offset, total_adu_length) ==
    LET is_fragment == HasFlag(flags, IS_FRAGMENT)
        has_frag_fields == \/ fragment_offset # NoneValue
                           \/ total_adu_length # NoneValue
    IN  /\ ~(is_fragment /\ ~has_frag_fields)
        /\ ~(has_frag_fields /\ ~is_fragment)

\* PrimaryBlock(...): the outcome of the constructor.
PrimaryConstructed(flags, fragment_offset, total_adu_length) ==
    [accepted |-> PrimaryPostInit(flags, fragment_offset, total_adu_length),
     flags |-> flags,
     fragment_offset |-> fragment_offset,
     total_adu_length |-> total_adu_length]

\* PrimaryBlock.from_cbor_array, the flags and the fragment fields: the
\* fields are read from elements 8 and 9 when IS_FRAGMENT is set, and the
\* constructor is called with what was read.
PrimaryFragmentFromArray(arr) ==
    IF Len(arr) < 8 \/ arr[1] # BP_VERSION
    THEN [accepted |-> FALSE, flags |-> 0,
          fragment_offset |-> NoneValue, total_adu_length |-> NoneValue]
    ELSE IF HasFlag(arr[2], IS_FRAGMENT)
    THEN IF Len(arr) < 10
         THEN [accepted |-> FALSE, flags |-> arr[2],
               fragment_offset |-> NoneValue, total_adu_length |-> NoneValue]
         ELSE PrimaryConstructed(arr[2], arr[9], arr[10])
    ELSE PrimaryConstructed(arr[2], NoneValue, NoneValue)

(* -------------------------------- CRC --------------------------------- *)

\* A CRC register is the pair of its 16-bit halves <<high, low>>; the high
\* half of a 16-bit register is 0.
Word(hi, lo) == <<hi, lo>>

Register == (0..65535) \X (0..65535)

CRC32C_POLY == Word(33526, 15224)
CRC32C_INIT == Word(65535, 65535)
CRC32C_XOR_OUT == Word(65535, 65535)
CRC32C_RESIDUE == Word(18535, 19399)

RECURSIVE XorInt(_, _)
\* a ^ b on non-negative integers
XorInt(a, b) ==
    IF a = 0 THEN b
    ELSE IF b = 0 THEN a
    ELSE ((a + b) % 2) + 2 * XorInt(a \div 2, b \div 2)

\* a ^ b on registers
Xor(a, b) == <<XorInt(a[1], b[1]), XorInt(a[2], b[2])>>

\* a >> k on a register, k at most 16
Shr(a, k) ==
    <<a[1] \div (2 ^ k),
      (a[2] \div (2 ^ k)) + (a[1] % (2 ^ k)) * (2 ^ (16 - k))>>

RECURSIVE TableShift(_, _, _)
\* The inner loop of _init_crc16_table and _init_crc32c_table: n times
\* "if crc & 1: crc = (crc >> 1) ^ POLY else: crc >>= 1".
TableShift(crc, poly, n) ==
    IF ~(crc \in Register /\ n > 0) THEN crc
    ELSE TableShift(IF crc[2] % 2 = 1 THEN Xor(Shr(crc, 1), poly)
                    ELSE Shr(crc, 1),
                    poly, n - 1)

\* Entry i of the complete lookup table.
TableEntry(i, poly) == TableShift(Word(0, i), poly, 8)

RECURSIVE CrcLoop(_, _, _)
\* for byte in data: crc = TABLE[(crc ^ byte) & 0xFF] ^ (crc >> 8)
CrcLoop(crc, data, poly) ==
    IF ~(crc \in Register /\ data # <<>>) THEN crc
    ELSE CrcLoop(Xor(TableEntry(XorInt(crc[2], Head(data)) % 256, poly),
                     Shr(crc, 8)),
                 Tail(data), poly)

crc16_x25(data) ==
    Xor(CrcLoop(Word(0, CRC16_INIT), data, Word(0, CRC16_POLY)),
        Word(0, CRC16_XOR_OUT))

crc32c(data) == Xor(CrcLoop(CRC32C_INIT, data, CRC32C_POLY), CRC32C_XOR_OUT)

\* int.to_bytes(size, 'big')
ToBytesBig(word, size) ==
    IF size = 2 THEN <<word[2] \div 256, word[2] % 256>>
    ELSE <<word[1] \div 256, word[1] % 256, word[2] \div 256, word[2] % 256>>

\* calculate_block_crc, for the CRC types CRC16 and CRC32C
CalculateBlockCrc(encoded_block, crc_type) ==
    IF crc_type = 0 THEN <<>>
    ELSE IF crc_type = CRC16 THEN ToBytesBig(crc16_x25(encoded_block), 2)
    ELSE ToBytesBig(crc32c(encoded_block), 4)

CrcSize(crc_type) == IF crc_type = CRC16 THEN 2 ELSE 4

\* verify_block_crc
VerifyBlockCrc(encoded_block, crc_type) ==
    IF crc_type = 0 THEN TRUE
    ELSE IF Len(encoded_block) < CrcSize(crc_type) THEN FALSE
    ELSE IF crc_type = CRC16
    THEN crc16_x25(encoded_block) = Word(0, CRC16_RESIDUE)
    ELSE crc32c(encoded_block) = CRC32C_RESIDUE

\* replace_crc_in_block
ReplaceCrcInBlock(encoded_block, crc_type) ==
    IF crc_type = 0 THEN encoded_block
    ELSE SubSeq(encoded_block, 1, Len(encoded_block) - CrcSize(crc_type))
         \o CalculateBlockCrc(encoded_block, crc_type)

\* The encoding of the payload block [1, 1, 0, crc_type, data, crc] with
\* the CRC byte string all zero: array header, four small integers, the
\* data as a byte string, the CRC as a byte string of 2 or 4 zero bytes.
ZeroCrcBlock(data, crc_type) ==
    <<134, PAYLOAD, 1, 0, crc_type, 64 + Len(data)>> \o data
    \o <<64 + CrcSize(crc_type)>> \o [i \in 1..CrcSize(crc_type) |-> 0]

(* -------------------------------- CBOR -------------------------------- *)

\* A Python int is <<sign, magnitude>>: sign 0 for n >= 0 and 1 for n < 0,
\* the magnitude in base 256, most significant digit first, without leading
\* zeros (0 is <<0, <<>>>>).  This keeps the 8-byte arguments exact.
RECURSIVE BigOf(_)
BigOf(n) == IF n = 0 THEN <<>> ELSE BigOf(n \div 256) \o <<n % 256>>

PyInt(n) == IF n >= 0 THEN <<0, BigOf(n)>> ELSE <<1, BigOf(0 - n)>>

Front(s) == SubSeq(s, 1, Len(s) - 1)

RECURSIVE StripZeros(_)
\* struct.unpack on big-endian bytes: the number they hold
StripZeros(b) == IF b # <<>> /\ b[1] = 0 THEN StripZeros(Tail(b)) ELSE b

\* struct.pack('>B' | '>H' | '>I' | '>Q', n)
Pack(mag, size) == [i \in 1..(size - Len(mag)) |-> 0] \o mag

RECURSIVE BigInc(_)
\* n + 1
BigInc(mag) ==
    IF mag = <<>> THEN <<1>>
    ELSE IF mag[Len(mag)] < 255 THEN Front(mag) \o <<mag[Len(mag)] + 1>>
    ELSE BigInc(Front(mag)) \o <<0>>

RECURSIVE BigDec(_)
\* n - 1, for n > 0
BigDec(mag) ==
    IF mag[Len(mag)] > 0 THEN StripZeros(Front(mag) \o <<mag[Len(mag)] - 1>>)
    ELSE BigDec(Front(mag)) \o <<255>>

\* -1 - n
MinusOneMinus(n) ==
    IF n[1] = 0 THEN <<1, BigInc(n[2])>> ELSE <<0, BigDec(n[2])>>

RECURSIVE NatOf(_)
\* The magnitude as a number, for magnitudes of at most three digits.
NatOf(mag) ==
    IF mag = <<>> THEN 0 ELSE 256 * NatOf(Front(mag)) + mag[Len(mag)]

\* A count read from the data, cut at one more than limit: no input of
\* the model is longer than limit, and every item takes at least one byte.
CountOf(n, limit) ==
    IF Len(n[2]) > 3 \/ NatOf(n[2]) > limit THEN limit + 1 ELSE NatOf(n[2])

\* The values of the supported set.  Every value has all the fields, so
\* that any two values can be compared; kind tells which field counts.
Value(kind, num, str, items, pairs) ==
    [kind |-> kind, num |-> num, str |-> str, items |-> items, pairs |-> pairs]

IntV(n) == Value("int", n, <<>>, <<>>, {})
BytesV(b) == Value("bytes", <<0, <<>>>>, b, <<>>, {})
\* A str is the sequence of its code points.
TextV(t) == Value("text", <<0, <<>>>>, t, <<>>, {})
ListV(items) == Value("list", <<0, <<>>>>, <<>>, items, {})
\* A dict is the set of its <<key, value>> pairs.
MapV(pairs) == Value("map", <<0, <<>>>>, <<>>, <<>>, pairs)
TrueV == Value("true", <<0, <<>>>>, <<>>, <<>>, {})
FalseV == Value("false", <<0, <<>>>>, <<>>, <<>>, {})
NoneV == Value("none", <<0, <<>>>>, <<>>, <<>>, {})

RECURSIVE Flatten(_)
\* The concatenation of a sequence of byte strings.
Flatten(ss) == IF ss = <<>> THEN <<>> ELSE Head(ss) \o Flatten(Tail(ss))

\* _encode_head with the first test written "argument <= 24": 24 is put
\* in the initial byte, where it reads as "one byte follows".
EncodeHead_InitialByte24(major_type, argument) ==
    LET mt_shifted == major_type * 32
    IN  IF argument = <<>> \/ (Len(argument) = 1 /\ argument[1] <= 24)
        THEN <<mt_shifted + NatOf(argument)>>
        ELSE IF Len(argument) <= 1
        THEN <<mt_shifted + AI_ONE_BYTE>> \o argument
        ELSE IF Len(argument) <= 2
        THEN <<mt_shifted + AI_TWO_BYTES>> \o Pack(argument, 2)
        ELSE IF Len(argument) <= 4
        THEN <<mt_shifted + AI_FOUR_BYTES>> \o Pack(argument, 4)
        ELSE <<mt_shifted + AI_EIGHT_BYTES>> \o Pack(argument, 8)

\* CBOREncoder._encode_head; the argument is a magnitude.
EncodeHead(major_type, argument) ==
    LET mt_shifted == major_type * 32
    IN  IF argument = <<>> \/ (Len(argument) = 1 /\ argument[1] < 24)
        THEN <<mt_shifted + NatOf(argument)>>
        ELSE IF Len(argument) <= 1
        THEN <<mt_shifted + AI_ONE_BYTE>> \o argument
        ELSE IF Len(argument) <= 2
        THEN <<mt_shifted + AI_TWO_BYTES>> \o Pack(argument, 2)
        ELSE IF Len(argument) <= 4
        THEN <<mt_shifted + AI_FOUR_BYTES>> \o Pack(argument, 4)
        ELSE <<mt_shifted + AI_EIGHT_BYTES>> \o Pack(argument, 8)

\* CBOREncoder.encode_int: encode_unsigned_int for n >= 0,
\* encode_negative_int (argument -1 - n) otherwise.
EncodeInt(n) ==
    IF n[1] = 0 THEN EncodeHead(UNSIGNED_INT, n[2])
    ELSE EncodeHead(NEGATIVE_INT, MinusOneMinus(n)[2])

\* str.encode('utf-8') of one code point
Utf8Encode(cp) ==
    IF cp < 128 THEN <<cp>>
    ELSE IF cp < 2048 THEN <<192 + (cp \div 64), 128 + (cp % 64)>>
    ELSE IF cp < 65536
    THEN <<224 + (cp \div 4096), 128 + ((cp \div 64) % 64), 128 + (cp % 64)>>
    ELSE <<240 + (cp \div 262144), 128 + ((cp \div 4096) % 64),
           128 + ((cp \div 64) % 64), 128 + (cp % 64)>>

\* str.encode('utf-8')
Utf8EncodeText(t) == Flatten([i \in 1..Len(t) |-> Utf8Encode(t[i])])

\* b is a continuation byte in lo..hi
Continuation(b, lo, hi) == lo <= b /\ b <= hi

RECURSIVE Utf8Decode(_)
\* bytes.decode('utf-8'): <<the code points>>, or <<>> where it raises
\* UnicodeDecodeError (a truncated or overlong sequence, a surrogate, a
\* code point above 0x10FFFF, a stray continuation byte).
Utf8Decode(b) ==
    IF b = <<>> THEN <<<<>>>>
    ELSE LET n == IF b[1] < 128 THEN 1
                  ELSE IF b[1] >= 194 /\ b[1] <= 223 THEN 2
                  ELSE IF b[1] >= 224 /\ b[1] <= 239 THEN 3
                  ELSE IF b[1] >= 240 /\ b[1] <= 244 THEN 4
                  ELSE 0
             well == /\ n > 0
                     /\ Len(b) >= n
                     /\ n >= 2 =>
                           Continuation(b[2],
                                        IF b[1] = 224 THEN 160
                                        ELSE IF b[1] = 240 THEN 144 ELSE 128,
                                        IF b[1] = 237 THEN 159
                                        ELSE IF b[1] = 244 THEN 143 ELSE 191)
                     /\ n >= 3 => Continuation(b[3], 128, 191)
                     /\ n >= 4 => Continuation(b[4], 128, 191)
             cp == IF n = 1 THEN b[1]
                   ELSE IF n = 2 THEN (b[1] - 192) * 64 + (b[2] - 128)
                   ELSE IF n = 3
                   THEN (b[1] - 224) * 4096 + (b[2] - 128) * 64 + (b[3] - 128)
                   ELSE (b[1] - 240) * 262144 + (b[2] - 128) * 4096
                        + (b[3] - 128) * 64 + (b[4] - 128)
         IN  IF ~well THEN <<>>
             ELSE CHOOSE out \in
                      {IF rest = <<>> THEN <<>> ELSE <<<<cp>> \o rest[1]>> :
                          rest \in {Utf8Decode(tail) :
                                       tail \in {SubSeq(b, n + 1, Len(b))}}} :
                      TRUE

RECURSIVE BytesLess(_, _)
\* a < b on bytes objects
BytesLess(a, b) ==
    IF b = <<>> THEN FALSE
    ELSE IF a = <<>> THEN TRUE
    ELSE IF a[1] # b[1] THEN a[1] < b[1]
    ELSE BytesLess(Tail(a), Tail(b))

RECURSIVE Encode(_)
RECURSIVE EncodePairs(_)

\* The body of a map: the pairs in the order of their encoded keys.
EncodePairs(pairs) ==
    IF pairs = {} THEN <<>>
    ELSE LET first == CHOOSE p \in pairs :
                          \A q \in pairs \ {p} :
                              ~BytesLess(Encode(q[1]), Encode(p[1]))
         IN  Encode(first[1]) \o Encode(first[2])
             \o EncodePairs(pairs \ {first})

\* CBOREncoder.encode
Encode(v) ==
    CASE v.kind = "none" -> <<SIMPLE * 32 + SIMPLE_NULL>>
      [] v.kind = "true" -> <<SIMPLE * 32 + SIMPLE_TRUE>>
      [] v.kind = "false" -> <<SIMPLE * 32 + SIMPLE_FALSE>>
      [] v.kind = "int" -> EncodeInt(v.num)
      [] v.kind = "bytes" -> EncodeHead(BYTE_STRING, BigOf(Len(v.str))) \o v.str
      [] v.kind = "text" ->
            EncodeHead(TEXT_STRING, BigOf(Len(Utf8EncodeText(v.str))))
            \o Utf8EncodeText(v.str)
      [] v.kind = "list" ->
            EncodeHead(ARRAY, BigOf(Len(v.items)))
            \o Flatten([i \in 1..Len(v.items) |-> Encode(v.items[i])])
      [] v.kind = "map" ->
            EncodeHead(MAP, BigOf(Cardinality(v.pairs))) \o EncodePairs(v.pairs)

\* What a decoding step gives: err is "none" and value the decoded item, or
\* err names the exception; pos is the decoder's position afterwards.
Decoded(value, pos) == [err |-> "none", value |-> value, pos |-> pos]
Raised(err, pos) == [err |-> err, value |-> NoneV, pos |-> pos]

\* CBORDecoder._read_bytes(n) for the count n: the bytes, or <<>> wrapped
\* as a failure when they are not all there.
CanRead(data, pos, n) == Len(n[2]) <= 3 /\ pos + NatOf(n[2]) <= Len(data)

\* CBORDecoder._decode_argument: the argument as a Python int.
DecodeArgument(data, pos, additional_info) ==
    LET size == IF additional_info = AI_ONE_BYTE THEN 1
                ELSE IF additional_info = AI_TWO_BYTES THEN 2
                ELSE IF additional_info = AI_FOUR_BYTES THEN 4
                ELSE 8
    IN  IF additional_info < 24
        THEN [err |-> "none", arg |-> PyInt(additional_info), pos |-> pos]
        ELSE IF additional_info <= AI_EIGHT_BYTES
        THEN IF pos + size > Len(data)
             THEN [err |-> "UnexpectedEnd", arg |-> PyInt(0), pos |-> pos]
             ELSE [err |-> "none",
                   arg |-> <<0, StripZeros(SubSeq(data, pos + 1, pos + size))>>,
                   pos |-> pos + size]
        ELSE IF additional_info = AI_INDEFINITE
        THEN [err |-> "none", arg |-> PyInt(-1), pos |-> pos]
        ELSE [err |-> "ValueError", arg |-> PyInt(0), pos |-> pos]

\* a == b for two dict keys: equal values, and True == 1, False == 0.
KeyEq(a, b) ==
    \/ a = b
    \/ a.kind = "true" /\ b = IntV(PyInt(1))
    \/ b.kind = "true" /\ a = IntV(PyInt(1))
    \/ a.kind = "false" /\ b = IntV(PyInt(0))
    \/ b.kind = "false" /\ a = IntV(PyInt(0))

\* result[key] = value on a dict
DictSet(pairs, key, value) ==
    IF \E p \in pairs : KeyEq(p[1], key)
    THEN LET p == CHOOSE q \in pairs : KeyEq(q[1], key)
         IN  (pairs \ {p}) \cup {<<p[1], value>>}
    ELSE pairs \cup {<<key, value>>}

RECURSIVE Decode(_, _)
RECURSIVE DecodeItems(_, _, _, _)
RECURSIVE DecodeIndefinite(_, _, _)
RECURSIVE DecodePairs(_, _, _, _)

\* [self.decode() for _ in range(length)]
DecodeItems(data, pos, length, items) ==
    IF length = 0 THEN Decoded(ListV(items), pos)
    ELSE LET item == Decode(data, pos)
         IN  IF item.err # "none" THEN Raised(item.err, item.pos)
             ELSE DecodeItems(data, item.pos, length - 1,
                              Append(items, item.value))

\* The loop of an indefinite-length array: self._data[self._pos] is read
\* without a look at the length of the data.
DecodeIndefinite(data, pos, items) ==
    IF pos >= Len(data) THEN Raised("IndexError", pos)
    ELSE IF data[pos + 1] = BREAK THEN Decoded(ListV(items), pos + 1)
    ELSE LET item == Decode(data, pos)
         IN  IF item.err # "none" THEN Raised(item.err, item.pos)
             ELSE DecodeIndefinite(data, item.pos, Append(items, item.value))

\* The loop of a map: a list or a dict as key makes result[key] = value
\* raise TypeError (unhashable type).
DecodePairs(data, pos, length, pairs) ==
    IF length = 0 THEN Decoded(MapV(pairs), pos)
    ELSE LET key == Decode(data, pos)
             value == Decode(data, key.pos)
         IN  IF key.err # "none" THEN Raised(key.err, key.pos)
             ELSE IF value.err # "none" THEN Raised(value.err, value.pos)
             ELSE IF key.value.kind \in {"list", "map"}
             THEN Raised("TypeError", value.pos)
             ELSE DecodePairs(data, value.pos, length - 1,
                              DictSet(pairs, key.value, value.value))

\* CBORDecoder.decode, with the decoder at pos (0 is the first byte).
Decode(data, pos) ==
    IF pos >= Len(data) THEN Raised("UnexpectedEnd", pos)
    ELSE
    LET initial_byte == data[pos + 1]
        major_type == initial_byte \div 32
        additional_info == initial_byte % 32
        a == DecodeArgument(data, pos + 1, additional_info)
        length == a.arg
    IN  IF major_type = SIMPLE
        THEN IF additional_info = SIMPLE_FALSE THEN Decoded(FalseV, pos + 1)
             ELSE IF additional_info = SIMPLE_TRUE THEN Decoded(TrueV, pos + 1)
             ELSE IF additional_info = SIMPLE_NULL THEN Decoded(NoneV, pos + 1)
             ELSE Raised("ValueError", pos + 1)
        ELSE IF major_type > MAP THEN Raised("ValueError", pos + 1)
        ELSE IF a.err # "none" THEN Raised(a.err, a.pos)
        ELSE IF major_type = UNSIGNED_INT THEN Decoded(IntV(a.arg), a.pos)
        ELSE IF major_type = NEGATIVE_INT
        THEN Decoded(IntV(MinusOneMinus(a.arg)), a.pos)
        ELSE IF major_type = ARRAY
        THEN IF length[1] = 1 THEN DecodeIndefinite(data, a.pos, <<>>)
             ELSE DecodeItems(data, a.pos, CountOf(length, Len(data)), <<>>)
        ELSE IF length[1] = 1 THEN Raised("ValueError", a.pos)
        ELSE IF major_type = MAP
        THEN DecodePairs(data, a.pos, CountOf(length, Len(data)), {})
        ELSE IF ~CanRead(data, a.pos, length)
        THEN Raised("UnexpectedEnd", a.pos)
        ELSE LET n == NatOf(length[2])
                 bytes == SubSeq(data, a.pos + 1, a.pos + n)
             IN  IF major_type = BYTE_STRING
                 THEN Decoded(BytesV(bytes), a.pos + n)
                 ELSE IF Utf8Decode(bytes) = <<>>
                 THEN Raised("UnicodeDecodeError", a.pos + n)
                 ELSE Decoded(TextV(Utf8Decode(bytes)[1]), a.pos + n)

\* cbor_encode
cbor_encode(value) == Encode(value)

\* cbor_decode
cbor_decode(data) == Decode(data, 0)

(* ------------------------ endpoint ID strings ------------------------- *)

\* A str is the sequence of its code points.  The ssp of a dtn: EID is its
\* URI; the empty sequence stands for the ssp 0 of dtn:none (EndpointID.dtn
\* refuses an empty URI).
Dtn(uri) == [scheme |-> DTN, ssp |-> uri]
DtnNone == [scheme |-> DTN, ssp |-> <<>>]

\* "dtn:", "ipn:" and "none"
DtnPrefix == <<100, 116, 110, 58>>
IpnPrefix == <<105, 112, 110, 58>>
NoneWord == <<110, 111, 110, 101>>

RECURSIVE Decimal(_)
\* f"{n}" for n >= 0
Decimal(n) ==
    IF n < 10 THEN <<48 + n>> ELSE Decimal(n \div 10) \o <<48 + (n % 10)>>

\* EndpointID.__str__
EidStr(e) ==
    IF e.scheme = DTN
    THEN IF e.ssp = <<>> THEN DtnPrefix \o NoneWord ELSE DtnPrefix \o e.ssp
    ELSE IpnPrefix \o Decimal(e.ssp[1]) \o <<46>> \o Decimal(e.ssp[2])

\* \d+ on ASCII digits
IsDigits(s) == s # <<>> /\ \A i \in 1..Len(s) : s[i] >= 48 /\ s[i] <= 57

RECURSIVE IntOf(_)
\* int(s) for a string of digits
IntOf(s) == IF s = <<>> THEN 0 ELSE 10 * IntOf(Front(s)) + (s[Len(s)] - 48)

StartsWith(s, prefix) ==
    Len(s) >= Len(prefix) /\ SubSeq(s, 1, Len(prefix)) = prefix

\* EndpointID.parse: <<eid>>, or <<>> where the code raises ValueError.
EidParse(s) ==
    IF s = DtnPrefix \o NoneWord THEN <<DtnNone>>
    ELSE IF StartsWith(s, DtnPrefix)
    THEN IF Len(s) = 4 THEN <<>> ELSE <<Dtn(SubSeq(s, 5, Len(s)))>>
    ELSE IF StartsWith(s, IpnPrefix)
    THEN LET ipn_part == SubSeq(s, 5, Len(s))
             dots == {k \in 1..Len(ipn_part) :
                         /\ ipn_part[k] = 46
                         /\ IsDigits(SubSeq(ipn_part, 1, k - 1))
                         /\ IsDigits(SubSeq(ipn_part, k + 1, Len(ipn_part)))}
         IN  IF dots = {} THEN <<>>
             ELSE LET k == CHOOSE d \in dots : TRUE
                  IN  <<Ipn(IntOf(SubSeq(ipn_part, 1, k - 1)),
                            IntOf(SubSeq(ipn_part, k + 1, Len(ipn_part))))>>
    ELSE <<>>

(* ------------------------------ state --------------------------------- *)

VARIABLES
    start_pc,      \* where start() is: "init", "contact_sent",
                   \* "sess_init_sent", "returned", "raised"
    running,       \* _running
    remote_eid,    \* remote_eid, "None" until the peer's SESS_INIT is parsed
    transfer_id,   \* _transfer_id
    pending,       \* _pending_transfers
    sock_closed,   \* sock.close() was called
    reader_pc,     \* the reader thread: "none", "check", "recv", "exited"
    stop_pc,       \* stop(): "none", "term_sent", "returned"
    last_error,    \* the exception that ended start() or the receive loop
    peer_header,   \* the contact header read from the peer, <<>> before
    peer_init,     \* the SESS_INIT read from the peer, <<>> before
    wire,          \* the messages written to the socket, in order
    rxlog,         \* the frames read by the receive loop, in order
    decode_log,    \* the byte strings handed to Bundle.decode, in order
    delivered,     \* the bundles handed to on_bundle_received, in order
    callers,       \* the send_bundle callers: position and locals
    ncalls,        \* send_bundle calls made so far
    sent_order     \* the call numbers of the segments written, in order

\* The TCPConvergenceLayer.
VARIABLES
    layer_running,    \* the layer's _running
    server_sock,      \* _server_sock: "None", "open", "closed"
    connections,      \* _connections: remote EID string -> session
    sessions,         \* the TCPCLConnection objects the layer constructed
    bundle_handlers,  \* _bundle_handlers
    last_dispatch,    \* the latest _on_bundle_received call, <<>> before
    last_send,        \* the latest layer send_bundle call, <<>> before
    layer_stopped     \* the layer's stop() has returned

\* A Bundle object and what was done with it.
VARIABLES
    bundle,           \* the Bundle
    last_add,         \* the latest add_extension call, <<>> before
    round_trip,       \* Bundle.decode(bundle.encode()) when computed
    encoded,          \* bundle.encode() when computed, <<>> before
    received          \* the latest Bundle.decode of a peer's bytes, <<>> before

session_vars ==
    <<start_pc, running, remote_eid, transfer_id, pending, sock_closed,
      reader_pc, stop_pc, last_error, peer_header, peer_init, wire, rxlog,
      decode_log, delivered, callers, ncalls, sent_order>>

layer_vars ==
    <<layer_running, server_sock, connections, sessions, bundle_handlers,
      last_dispatch, last_send, layer_stopped>>

bundle_vars == <<bundle, last_add, round_trip, encoded, received>>

base_vars == <<session_vars, layer_vars, bundle_vars>>

\* A PrimaryBlock being constructed or decoded.
VARIABLES
    primary_in,       \* the arguments, or the decoded CBOR array
    primary_out       \* the outcome, <<>> before

prim_vars == <<primary_in, primary_out>>

\* A block whose CRC is being filled in and verified.
VARIABLES
    crc_in,           \* the block with its zero CRC placeholder, and crc_type
    crc_out           \* the block with its CRC and what verify said, <<>> before

crc_vars == <<crc_in, crc_out>>
\* A value being encoded, or bytes being decoded.
VARIABLES
    cbor_value,       \* <<the value handed to cbor_encode>>, <<>> when bytes are decoded
    cbor_data,        \* the bytes: the encoding of the value, or the input
    cbor_out          \* <<what cbor_decode gave for the bytes>>, <<>> before

cbor_vars == <<cbor_value, cbor_data, cbor_out>>
\* The threads of one session inside sock.sendall, and the byte stream.
VARIABLES
    sending,          \* per thread: messages begun, parts of the current one left
    transport,        \* the parts the socket took, in the order it took them
    transport_closed  \* stop() has closed the socket

send_vars == <<sending, transport, transport_closed>>
\* Two nodes joined by one TCP connection, each running start().
VARIABLES
    peer_eid,         \* each node's local_eid
    peer_pc,          \* where each node's start() is
    peer_remote,      \* each session's remote_eid, <<>> while None
    channel           \* per node: the messages sent to it and not yet read

peer_vars == <<peer_eid, peer_pc, peer_remote, channel>>
\* The accept thread and the peers that dial the listening socket.
VARIABLES
    inbound,          \* what each inbound peer does, in the order they connected
    accept_pc,        \* where the accept thread is
    handshakes        \* per connection accept() returned: how its start() went

accept_vars == <<inbound, accept_pc, handshakes>>
\* The CRC lookup table of the module, and the threads that call the CRC.
VARIABLES
    table_type,       \* which CRC the threads call: CRC16 or CRC32C
    crc_table,        \* _CRC16_TABLE or _CRC32C_TABLE: <<>> while None, else <<the list>>
    crc_call          \* per thread: where its call of crc16_x25 or crc32c is

table_vars == <<table_type, crc_table, crc_call>>
codec_vars == <<prim_vars, crc_vars, cbor_vars, send_vars, peer_vars, accept_vars, table_vars>>

vars == <<session_vars, layer_vars, bundle_vars, codec_vars>>

\* No PrimaryBlock is being made.
PrimIdle ==
    /\ primary_in = <<>>
    /\ primary_out = <<>>

\* No block is being given a CRC.
CrcIdle ==
    /\ crc_in = <<>>
    /\ crc_out = <<>>

\* Nothing is being encoded or decoded.
CborIdle ==
    /\ cbor_value = <<>>
    /\ cbor_data = <<>>
    /\ cbor_out = <<>>

\* No thread has written to the socket.
SendIdle ==
    /\ sending = <<>>
    /\ transport = <<>>
    /\ transport_closed = FALSE

\* No pair of nodes is connected.
PeersIdle ==
    /\ peer_eid = <<>>
    /\ peer_pc = <<>>
    /\ peer_remote = <<>>
    /\ channel = <<>>

\* No peer has dialled.
AcceptIdle ==
    /\ inbound = <<>>
    /\ accept_pc = "accept"
    /\ handshakes = <<>>

\* No thread has called a CRC function.
TableIdle ==
    /\ table_type = CRC16
    /\ crc_table = <<>>
    /\ crc_call = <<>>

\* The parts of the state outside group g are idle.
CodecIdleExcept(g) ==
    /\ IF g = "prim" THEN TRUE ELSE PrimIdle
    /\ IF g = "crc" THEN TRUE ELSE CrcIdle
    /\ IF g = "cbor" THEN TRUE ELSE CborIdle
    /\ IF g = "send" THEN TRUE ELSE SendIdle
    /\ IF g = "peers" THEN TRUE ELSE PeersIdle
    /\ IF g = "accept" THEN TRUE ELSE AcceptIdle
    /\ IF g = "table" THEN TRUE ELSE TableIdle

\* The parts of the state outside group g stay as they are.
CodecUnchangedExcept(g) ==
    /\ IF g = "prim" THEN TRUE ELSE UNCHANGED prim_vars
    /\ IF g = "crc" THEN TRUE ELSE UNCHANGED crc_vars
    /\ IF g = "cbor" THEN TRUE ELSE UNCHANGED cbor_vars
    /\ IF g = "send" THEN TRUE ELSE UNCHANGED send_vars
    /\ IF g = "peers" THEN TRUE ELSE UNCHANGED peer_vars
    /\ IF g = "accept" THEN TRUE ELSE UNCHANGED accept_vars
    /\ IF g = "table" THEN TRUE ELSE UNCHANGED table_vars

CodecInit == CodecIdleExcept("none")

\* TCPConvergenceLayer.__init__
LayerInit ==
    /\ layer_running = FALSE
    /\ server_sock = "None"
    /\ connections = EmptyMap
    /\ sessions = <<>>
    /\ bundle_handlers = <<>>
    /\ last_dispatch = <<>>
    /\ last_send = <<>>
    /\ layer_stopped = FALSE

\* A bundle fresh from Bundle.create.
BundleInit(destination, source, payload) ==
    /\ bundle = BundleCreate(destination, source, payload)
    /\ last_add = <<>>
    /\ round_trip = <<>>
    /\ encoded = <<>>
    /\ received = <<>>

Threads == 1..NThreads

IdleCaller == [pc |-> "idle", call |-> 0, tmp |-> 0, transfer_id |-> 0,
               bundle |-> 0, after_close |-> FALSE]

\* A caller whose send_bundle call has ended: its locals are gone.
Returned(how, c) == [IdleCaller EXCEPT !.pc = how, !.after_close = c.after_close]

\* TCPCLConnection.__init__
ConnectionInit ==
    /\ start_pc = "init"
    /\ running = FALSE
    /\ remote_eid = "None"
    /\ transfer_id = 0
    /\ pending = EmptyMap
    /\ sock_closed = FALSE
    /\ reader_pc = "none"
    /\ stop_pc = "none"
    /\ last_error = "none"
    /\ peer_header = <<>>
    /\ peer_init = <<>>
    /\ wire = <<>>
    /\ rxlog = <<>>
    /\ decode_log = <<>>
    /\ delivered = <<>>
    /\ callers = [t \in Threads |-> IdleCaller]
    /\ ncalls = 0
    /\ sent_order = <<>>

\* A TCPCLConnection after construction, beside a layer and a bundle that
\* stay as they were made.
Init ==
    /\ ConnectionInit
    /\ LayerInit
    /\ BundleInit(Ipn(2, 1), Ipn(1, 1), <<>>)
    /\ CodecInit

(* --------------------------- receive loop ----------------------------- *)

\* while self._running: enter the body, or leave the loop (line 309).
ReceiveLoopCheck ==
    /\ reader_pc = "check"
    /\ IF running
       THEN /\ reader_pc' = "recv"
            /\ UNCHANGED running
       ELSE /\ reader_pc' = "exited"
            /\ running' = FALSE
    /\ UNCHANGED <<layer_vars, bundle_vars, codec_vars,
                   start_pc, remote_eid, transfer_id, pending, sock_closed,
                   stop_pc, last_error, peer_header, peer_init, wire, rxlog,
                   decode_log, delivered, callers, ncalls, sent_order>>

\* A loop that breaks without line 309: _running keeps its value.
ReceiveLoopBreak_KeepRunning(error) ==
    /\ reader_pc' = "exited"
    /\ running' = running
    /\ last_error' = error

\* The loop leaves through an except clause: break, then _running = False.
ReceiveLoopBreak(error) ==
    /\ reader_pc' = "exited"
    /\ running' = FALSE
    /\ last_error' = error

\* _handle_message for a frame _recv_message returned.
HandleMessage(f) ==
    IF f.type = XFER_SEGMENT
    THEN LET r == HandleXferSegment(pending, delivered, f)
         IN  /\ pending' = r.pending
             /\ wire' = wire \o r.sent
             /\ decode_log' = decode_log \o r.decoded
             /\ delivered' = r.delivered
             /\ IF r.raised
                THEN ReceiveLoopBreak("KeyError")
                ELSE /\ reader_pc' = "check"
                     /\ UNCHANGED <<running, last_error>>
    ELSE /\ reader_pc' = "check"
         /\ running' = IF f.type = SESS_TERM THEN FALSE ELSE running
         /\ UNCHANGED <<pending, wire, decode_log, delivered, last_error>>

\* One pass of the loop body: _recv_message reads frame f, then
\* _handle_message(f); an unknown message type raises ValueError.
ReceiveLoopMessage(f) ==
    /\ reader_pc = "recv"
    /\ ~sock_closed
    /\ Len(rxlog) < MaxRx
    /\ rxlog' = Append(rxlog, f)
    /\ IF RecvMessageKnown(f.type)
       THEN HandleMessage(f)
       ELSE /\ ReceiveLoopBreak("ValueError")
            /\ UNCHANGED <<pending, wire, decode_log, delivered>>
    /\ UNCHANGED <<layer_vars, bundle_vars, codec_vars,
                   start_pc, remote_eid, transfer_id, sock_closed, stop_pc,
                   peer_header, peer_init, callers, ncalls, sent_order>>

\* _recv_exact reads EOF, at a frame boundary or inside a frame:
\* ConnectionError.  A read on the socket stop() closed raises OSError.
ReceiveLoopEOF ==
    /\ reader_pc = "recv"
    /\ ReceiveLoopBreak(IF sock_closed THEN "OSError" ELSE "ConnectionError")
    /\ UNCHANGED <<layer_vars, bundle_vars, codec_vars,
                   start_pc, remote_eid, transfer_id, pending, sock_closed,
                   stop_pc, peer_header, peer_init, wire, rxlog, decode_log,
                   delivered, callers, ncalls, sent_order>>

(* ----------------------- frames the peer sends ------------------------ *)

RxTransferIds == {1, 2}

\* Segment payloads: the two pieces of one encoded bundle, and another
\* bundle whole.  A piece alone does not decode.
SegData == {<<INDEFINITE_ARRAY, 1>>, <<BREAK>>, <<INDEFINITE_ARRAY, 2, BREAK>>}

SegmentFrames ==
    {Frame(XFER_SEGMENT, fl, id, d) :
        fl \in {0, END, START, START + END}, id \in RxTransferIds, d \in SegData}

ControlFrames ==
    {Frame(t, 0, 0, <<>>) :
        t \in {XFER_ACK, XFER_REFUSE, KEEPALIVE, SESS_TERM, MSG_REJECT, SESS_INIT}}

(* ------------- the established session and its reader ----------------- *)

\* The state start() leaves behind after a handshake with peer ipn:2.1.
InitRx ==
    /\ CodecInit
    /\ start_pc = "returned"
    /\ running = TRUE
    /\ remote_eid = "ipn:2.1"
    /\ transfer_id = 0
    /\ pending = EmptyMap
    /\ sock_closed = FALSE
    /\ reader_pc = "check"
    /\ stop_pc = "none"
    /\ last_error = "none"
    /\ peer_header = <<ContactHeader>>
    /\ peer_init = <<SessionInit("ipn:2.1")>>
    /\ wire = <<ContactHeader, SessionInit(LocalEid)>>
    /\ rxlog = <<>>
    /\ decode_log = <<>>
    /\ delivered = <<>>
    /\ callers = [t \in Threads |-> IdleCaller]
    /\ ncalls = 0
    /\ sent_order = <<>>
    /\ LayerInit
    /\ BundleInit(Ipn(2, 1), Ipn(1, 1), <<>>)

NextRx ==
    \/ ReceiveLoopCheck
    \/ \E f \in SegmentFrames \cup ControlFrames : ReceiveLoopMessage(f)
    \/ ReceiveLoopEOF

SpecRx == InitRx /\ [][NextRx]_vars

(* --------------- the reader and segments of any length ---------------- *)

\* A segment's data_len is a u64: a segment carries up to MaxMRU bytes.
FullData == [i \in 1..MaxMRU |-> 0]

\* The segments of one transfer, each of one byte or of the largest length.
LongSegmentFrames ==
    {Frame(XFER_SEGMENT, fl, 1, d) :
        fl \in {0, END, START, START + END}, d \in {<<0>>, FullData}}

NextRxLong ==
    \/ ReceiveLoopCheck
    \/ \E f \in LongSegmentFrames : ReceiveLoopMessage(f)
    \/ ReceiveLoopEOF

SpecRxLong == InitRx /\ [][NextRxLong]_vars

(* ------------------------------ start() ------------------------------- *)

\* start() raises: the exception leaves start() where it is; _running keeps
\* the value line 188 gave it and no thread is started.
StartRaise(error) ==
    /\ start_pc' = "raised"
    /\ last_error' = error

\* start(), lines 188-210: _running = True, then the contact header is sent.
StartSendContact ==
    /\ start_pc = "init"
    /\ running' = TRUE
    /\ wire' = Append(wire, ContactHeader)
    /\ start_pc' = "contact_sent"
    /\ UNCHANGED <<layer_vars, bundle_vars, codec_vars,
                   remote_eid, transfer_id, pending, sock_closed, reader_pc,
                   stop_pc, last_error, peer_header, peer_init, rxlog,
                   decode_log, delivered, callers, ncalls, sent_order>>

\* _exchange_contact_headers reads the peer's 6 bytes h and decodes them;
\* then _exchange_session_init sends SESS_INIT.
StartRecvContact(h) ==
    /\ start_pc = "contact_sent"
    /\ ~sock_closed
    /\ peer_header' = <<h>>
    /\ IF ContactHeaderValid(h)
       THEN /\ wire' = Append(wire, SessionInit(LocalEid))
            /\ start_pc' = "sess_init_sent"
            /\ UNCHANGED last_error
       ELSE /\ StartRaise("ValueError")
            /\ UNCHANGED wire
    /\ UNCHANGED <<layer_vars, bundle_vars, codec_vars,
                   running, remote_eid, transfer_id, pending, sock_closed,
                   reader_pc, stop_pc, peer_init, rxlog, decode_log, delivered,
                   callers, ncalls, sent_order>>

\* _exchange_session_init reads the peer's first message m: _recv_message
\* raises on an unknown type, SessionInit.decode on any type but SESS_INIT,
\* EndpointID.parse on a bad node id; else remote_eid is set and the reader
\* thread is started.
StartRecvSessInit(m) ==
    /\ start_pc = "sess_init_sent"
    /\ ~sock_closed
    /\ IF m.type # SESS_INIT
       THEN /\ StartRaise("ValueError")
            /\ UNCHANGED <<peer_init, remote_eid, reader_pc>>
       ELSE /\ peer_init' = <<m>>
            /\ IF EidParses(m.node_id)
               THEN /\ remote_eid' = m.node_id
                    /\ reader_pc' = "check"
                    /\ start_pc' = "returned"
                    /\ UNCHANGED last_error
               ELSE /\ StartRaise("ValueError")
                    /\ UNCHANGED <<remote_eid, reader_pc>>
    /\ UNCHANGED <<layer_vars, bundle_vars, codec_vars,
                   running, transfer_id, pending, sock_closed, stop_pc,
                   peer_header, wire, rxlog, decode_log, delivered, callers,
                   ncalls, sent_order>>

\* A read of start() meets EOF (ConnectionError), or the socket stop() closed
\* (OSError).
StartRecvEOF ==
    /\ start_pc \in {"contact_sent", "sess_init_sent"}
    /\ StartRaise(IF sock_closed THEN "OSError" ELSE "ConnectionError")
    /\ UNCHANGED <<layer_vars, bundle_vars, codec_vars,
                   running, remote_eid, transfer_id, pending, sock_closed,
                   reader_pc, stop_pc, peer_header, peer_init, wire, rxlog,
                   decode_log, delivered, callers, ncalls, sent_order>>

(* ------------------------------- stop() ------------------------------- *)

\* stop(), lines 199-200: _running = False, then SESS_TERM(UNKNOWN); a
\* failing sendall is swallowed.
StopSendTerm ==
    /\ stop_pc = "none"
    /\ start_pc # "init"
    /\ running' = FALSE
    /\ wire' = IF sock_closed THEN wire ELSE Append(wire, SessTerm(REASON_UNKNOWN))
    /\ stop_pc' = "term_sent"
    /\ UNCHANGED <<layer_vars, bundle_vars, codec_vars,
                   start_pc, remote_eid, transfer_id, pending, sock_closed,
                   reader_pc, last_error, peer_header, peer_init, rxlog,
                   decode_log, delivered, callers, ncalls, sent_order>>

\* stop(), lines 201-204: sock.close().
StopClose ==
    /\ stop_pc = "term_sent"
    /\ sock_closed' = TRUE
    /\ stop_pc' = "returned"
    /\ UNCHANGED <<layer_vars, bundle_vars, codec_vars,
                   start_pc, running, remote_eid, transfer_id, pending,
                   reader_pc, last_error, peer_header, peer_init, wire, rxlog,
                   decode_log, delivered, callers, ncalls, sent_order>>

(* ---------------------------- send_bundle ----------------------------- *)

\* The session has closed: stop() has returned, or the receive loop has ended
\* (SESS_TERM received, EOF, or an error).  Between the two steps of stop()
\* the session is terminating, not yet closed.
Closed ==
    \/ stop_pc = "returned"
    \/ reader_pc = "exited" /\ stop_pc = "none"

\* The value `self._transfer_id += 1` stores, from the value it loaded.
NextTransferId(loaded) == loaded + 1

\* A caller enters send_bundle(b) on the connection start() returned, and
\* line 376 loads self._transfer_id.
SendBundleCall(t, b) ==
    /\ start_pc = "returned"
    /\ callers[t].pc \in {"idle", "returned", "raised"}
    /\ ncalls < MaxCalls
    /\ ncalls' = ncalls + 1
    /\ callers' = [callers EXCEPT ![t] =
                      [pc |-> "store", call |-> ncalls + 1, tmp |-> transfer_id,
                       transfer_id |-> 0, bundle |-> b, after_close |-> Closed]]
    /\ UNCHANGED <<layer_vars, bundle_vars, codec_vars,
                   start_pc, running, remote_eid, transfer_id, pending,
                   sock_closed, reader_pc, stop_pc, last_error, peer_header,
                   peer_init, wire, rxlog, decode_log, delivered, sent_order>>

\* Line 376 stores the incremented value.
SendBundleStore(t) ==
    /\ callers[t].pc = "store"
    /\ transfer_id' = NextTransferId(callers[t].tmp)
    /\ callers' = [callers EXCEPT ![t].pc = "read"]
    /\ UNCHANGED <<layer_vars, bundle_vars, codec_vars,
                   start_pc, running, remote_eid, pending, sock_closed,
                   reader_pc, stop_pc, last_error, peer_header, peer_init, wire,
                   rxlog, decode_log, delivered, ncalls, sent_order>>

\* Line 377: transfer_id = self._transfer_id.
SendBundleRead(t) ==
    /\ callers[t].pc = "read"
    /\ callers' = [callers EXCEPT ![t].pc = "send",
                                  ![t].transfer_id = transfer_id]
    /\ UNCHANGED <<layer_vars, bundle_vars, codec_vars,
                   start_pc, running, remote_eid, transfer_id, pending,
                   sock_closed, reader_pc, stop_pc, last_error, peer_header,
                   peer_init, wire, rxlog, decode_log, delivered, ncalls, sent_order>>

\* Lines 380-393: the bundle is encoded and sent as one START|END segment;
\* sendall on the closed socket raises OSError out of send_bundle.
SendBundleSendall(t) ==
    /\ callers[t].pc = "send"
    /\ IF sock_closed
       THEN /\ callers' = [callers EXCEPT ![t] = Returned("raised", @)]
            /\ UNCHANGED <<wire, sent_order>>
       ELSE /\ callers' = [callers EXCEPT ![t] = Returned("returned", @)]
            /\ wire' = Append(wire, XferSegment(callers[t].transfer_id,
                                                BundleEncode(callers[t].bundle)))
            /\ sent_order' = Append(sent_order, callers[t].call)
    /\ UNCHANGED <<layer_vars, bundle_vars, codec_vars,
                   start_pc, running, remote_eid, transfer_id, pending,
                   sock_closed, reader_pc, stop_pc, last_error, peer_header,
                   peer_init, rxlog, decode_log, delivered, ncalls>>

(* ----------------------- the session and its peer --------------------- *)

PeerHeaders ==
    {[magic |-> m, version |-> v, flags |-> 0] :
        m \in {TCPCL_MAGIC, "dtn?"}, v \in {3, TCPCL_VERSION}}

PeerSegmentMRUs == {2, MaxMRU}

PeerTransferMRUs == {2, MaxMRU}

\* The first message after the contact header: a SESS_INIT, or something else.
PeerFirstMessages ==
    {[type |-> SESS_INIT, keepalive_interval |-> 30, segment_mru |-> mru,
      transfer_mru |-> MaxMRU, node_id |-> n] :
        mru \in PeerSegmentMRUs, n \in {"ipn:2.1", "bogus"}}
    \cup {Frame(t, 0, 0, <<>>) : t \in {KEEPALIVE, MSG_REJECT}}

\* The frames of a peer that sends whole bundles.
SessionFrames ==
    {Frame(t, 0, 0, <<>>) :
        t \in {XFER_ACK, XFER_REFUSE, KEEPALIVE, SESS_TERM, MSG_REJECT}}
    \cup {Frame(XFER_SEGMENT, START + END, 1, BundleEncode(1))}

\* The life of a session whose owner sends from one thread.
OneCaller == {t \in Threads : \A u \in Threads : t <= u}

Next ==
    \/ StartSendContact
    \/ \E h \in PeerHeaders : StartRecvContact(h)
    \/ \E m \in PeerFirstMessages : StartRecvSessInit(m)
    \/ StartRecvEOF
    \/ StopSendTerm
    \/ StopClose
    \/ ReceiveLoopCheck
    \/ \E f \in SessionFrames : ReceiveLoopMessage(f)
    \/ ReceiveLoopEOF
    \/ \E t \in OneCaller, b \in Bundles : SendBundleCall(t, b)
    \/ \E t \in OneCaller : SendBundleStore(t)
    \/ \E t \in OneCaller : SendBundleRead(t)
    \/ \E t \in OneCaller : SendBundleSendall(t)

Spec == Init /\ [][Next]_vars

(* ------------- the established session and its senders ---------------- *)

\* The state start() leaves behind, for each segment_MRU and transfer_MRU the
\* peer may have advertised; the reader thread waits for the peer, which
\* sends nothing.
InitTx ==
    /\ CodecInit
    /\ start_pc = "returned"
    /\ running = TRUE
    /\ remote_eid = "ipn:2.1"
    /\ transfer_id = 0
    /\ pending = EmptyMap
    /\ sock_closed = FALSE
    /\ reader_pc = "recv"
    /\ stop_pc = "none"
    /\ last_error = "none"
    /\ peer_header = <<ContactHeader>>
    /\ \E m \in PeerFirstMessages, tm \in PeerTransferMRUs :
          /\ m.type = SESS_INIT
          /\ m.node_id = "ipn:2.1"
          /\ peer_init = <<[m EXCEPT !.transfer_mru = tm]>>
    /\ wire = <<ContactHeader, SessionInit(LocalEid)>>
    /\ rxlog = <<>>
    /\ decode_log = <<>>
    /\ delivered = <<>>
    /\ callers = [t \in Threads |-> IdleCaller]
    /\ ncalls = 0
    /\ sent_order = <<>>
    /\ LayerInit
    /\ BundleInit(Ipn(2, 1), Ipn(1, 1), <<>>)

NextTx ==
    \/ \E t \in Threads, b \in Bundles : SendBundleCall(t, b)
    \/ \E t \in Threads : SendBundleStore(t)
    \/ \E t \in Threads : SendBundleRead(t)
    \/ \E t \in Threads : SendBundleSendall(t)

SpecTx == InitTx /\ [][NextTx]_vars


(* ---------------------- the convergence layer ------------------------- *)

\* The node ids peers give in their SESS_INIT.
PeerEids == {"ipn:2.1", "ipn:3.1"}

\* The callables given to add_bundle_handler; "faulty" raises when called.
Handlers == {"store", "forward", "faulty"}

HandlerRaises(h) == h = "faulty"

\* A TCPCLConnection the layer constructed and called start() on: start()
\* returned (established, remote_eid set) or raised (line 188 had already
\* set _running).
Session(origin, eid, established) ==
    [origin |-> origin,
     remote_eid |-> IF established THEN eid ELSE "None",
     established |-> established,
     running |-> TRUE,
     term_sent |-> FALSE,
     sock_closed |-> FALSE]

\* conn.stop(): _running = False, SESS_TERM written unless the socket is
\* closed already, sock.close().
ConnStop(c) ==
    [c EXCEPT !.running = FALSE,
              !.term_sent = c.term_sent \/ ~c.sock_closed,
              !.sock_closed = TRUE]

\* The first handler of the list that raises, 0 if none does.
FirstRaising(handlers) ==
    LET S == {i \in 1..Len(handlers) : HandlerRaises(handlers[i])}
    IN  IF S = {} THEN 0 ELSE CHOOSE i \in S : \A j \in S : i <= j

\* The loop of _on_bundle_received without its try: the first handler that
\* raises ends it, and the exception leaves the callback.
OnBundleReceived_NoTry(handlers) ==
    [invoked |-> IF FirstRaising(handlers) = 0
                 THEN handlers
                 ELSE SubSeq(handlers, 1, FirstRaising(handlers)),
     propagated |-> FirstRaising(handlers) # 0]

\* _on_bundle_received: the handlers called, in order, and whether an
\* exception leaves the callback.  Each call is in a try of its own.
OnBundleReceived(handlers) ==
    [invoked |-> [i \in 1..Len(handlers) |-> handlers[i]],
     propagated |-> FALSE]

\* add_bundle_handler(h)
AddBundleHandler(h) ==
    /\ Len(bundle_handlers) < MaxHandlers
    /\ bundle_handlers' = Append(bundle_handlers, h)
    /\ UNCHANGED <<session_vars, bundle_vars, codec_vars, layer_running, server_sock,
                   connections, sessions, last_dispatch, last_send,
                   layer_stopped>>

\* The reader thread of session i has decoded bundle b and calls its
\* on_bundle_received, the layer's _on_bundle_received (lines 495, 516).
\* An exception leaving the callback would be caught by the session (line
\* 361): the session goes on reading in either case.
LayerBundleReceived(i, b) ==
    /\ sessions[i].established
    /\ sessions[i].running
    /\ ~sessions[i].sock_closed
    /\ LET r == OnBundleReceived(bundle_handlers)
       IN  last_dispatch' = <<[session |-> i, bundle |-> b,
                               handlers |-> bundle_handlers,
                               invoked |-> r.invoked,
                               propagated |-> r.propagated]>>
    /\ UNCHANGED <<session_vars, bundle_vars, codec_vars, layer_running, server_sock,
                   connections, sessions, bundle_handlers, last_send,
                   layer_stopped>>

\* The receive loop of session i ends (EOF, SESS_TERM, an error): its
\* _running is cleared; the layer is not told.
SessionLoopEnds(i) ==
    /\ sessions[i].established
    /\ sessions[i].running
    /\ sessions' = [sessions EXCEPT ![i].running = FALSE]
    /\ UNCHANGED <<session_vars, bundle_vars, codec_vars, layer_running, server_sock,
                   connections, bundle_handlers, last_dispatch, last_send,
                   layer_stopped>>

\* A started layer with one inbound and one outbound session established.
InitHandlers ==
    /\ CodecInit
    /\ ConnectionInit
    /\ BundleInit(Ipn(2, 1), Ipn(1, 1), <<>>)
    /\ layer_running = TRUE
    /\ server_sock = "open"
    /\ sessions = <<Session("accept", "ipn:2.1", TRUE),
                    Session("dial", "ipn:3.1", TRUE)>>
    /\ connections = MapPut(EmptyMap, "ipn:3.1", 2)
    /\ bundle_handlers = <<>>
    /\ last_dispatch = <<>>
    /\ last_send = <<>>
    /\ layer_stopped = FALSE

NextHandlers ==
    \/ \E h \in Handlers : AddBundleHandler(h)
    \/ \E i \in DOMAIN sessions, b \in Bundles : LayerBundleReceived(i, b)
    \/ \E i \in DOMAIN sessions : SessionLoopEnds(i)

SpecHandlers == InitHandlers /\ [][NextHandlers]_vars

(* ------------------- the layer and its registry ----------------------- *)

\* TCPConvergenceLayer.start(): _running = True, the listening socket, the
\* accept thread.
LayerStart ==
    /\ ~layer_running
    /\ server_sock = "None"
    /\ ~layer_stopped
    /\ layer_running' = TRUE
    /\ server_sock' = "open"
    /\ UNCHANGED <<session_vars, bundle_vars, codec_vars, connections, sessions,
                   bundle_handlers, last_dispatch, last_send, layer_stopped>>

\* One pass of _accept_loop that accepts a peer: the connection is built and
\* start()ed in the accept thread; it is held by no attribute of the layer.
\* An exception of start() is caught and logged (line 500).
AcceptLoop(eid, ok) ==
    /\ layer_running
    /\ server_sock = "open"
    /\ Len(sessions) < MaxSessions
    /\ sessions' = Append(sessions, Session("accept", eid, ok))
    /\ UNCHANGED <<session_vars, bundle_vars, codec_vars, layer_running, server_sock,
                   connections, bundle_handlers, last_dispatch, last_send,
                   layer_stopped>>

\* connect(host, port): the connection is built and start()ed; when start()
\* returns it is stored under str(conn.remote_eid), replacing an entry with
\* the same key; when start() raises, so does connect.  The owner does not
\* dial on a layer it has stopped.
Connect(eid, ok) ==
    /\ ~layer_stopped
    /\ Len(sessions) < MaxSessions
    /\ sessions' = Append(sessions, Session("dial", eid, ok))
    /\ connections' = IF ok
                      THEN MapPut(connections, eid, Len(sessions) + 1)
                      ELSE connections
    /\ UNCHANGED <<session_vars, bundle_vars, codec_vars, layer_running, server_sock,
                   bundle_handlers, last_dispatch, last_send, layer_stopped>>

\* The layer's send_bundle(bundle) with str(bundle.destination) = dest:
\* no entry, False; else conn.send_bundle, which raises on a closed socket
\* and writes otherwise, then True.
LayerSendBundle(dest) ==
    /\ last_send' =
          IF dest \notin DOMAIN connections
          THEN <<[dest |-> dest, registered |-> FALSE, result |-> "False",
                  wrote |-> FALSE]>>
          ELSE IF sessions[connections[dest]].sock_closed
          THEN <<[dest |-> dest, registered |-> TRUE, result |-> "raised",
                  wrote |-> FALSE]>>
          ELSE <<[dest |-> dest, registered |-> TRUE, result |-> "True",
                  wrote |-> TRUE]>>
    /\ UNCHANGED <<session_vars, bundle_vars, codec_vars, layer_running, server_sock,
                   connections, sessions, bundle_handlers, last_dispatch,
                   layer_stopped>>

\* The layer's stop(): _running = False, conn.stop() for the values of
\* _connections, the listening socket closed if there is one.
LayerStop ==
    /\ ~layer_stopped
    /\ layer_running' = FALSE
    /\ sessions' = [i \in DOMAIN sessions |->
                      IF \E e \in DOMAIN connections : connections[e] = i
                      THEN ConnStop(sessions[i])
                      ELSE sessions[i]]
    /\ server_sock' = IF server_sock = "open" THEN "closed" ELSE server_sock
    /\ layer_stopped' = TRUE
    /\ UNCHANGED <<session_vars, bundle_vars, codec_vars, connections, bundle_handlers,
                   last_dispatch, last_send>>

InitLayer ==
    /\ CodecInit
    /\ ConnectionInit
    /\ LayerInit
    /\ BundleInit(Ipn(2, 1), Ipn(1, 1), <<>>)

NextLayer ==
    \/ LayerStart
    \/ \E e \in PeerEids, ok \in BOOLEAN : AcceptLoop(e, ok)
    \/ \E e \in PeerEids, ok \in BOOLEAN : Connect(e, ok)
    \/ \E i \in DOMAIN sessions : SessionLoopEnds(i)
    \/ \E dest \in PeerEids : LayerSendBundle(dest)
    \/ LayerStop

SpecLayer == InitLayer /\ [][NextLayer]_vars

(* ----------------------- building a bundle ---------------------------- *)

BundleEids == {Ipn(1, 1), Ipn(2, 1)}

PayloadData == {<<>>, <<72, 105>>}

ExtensionTypes == {PREVIOUS_NODE, BUNDLE_AGE, HOP_COUNT}

\* The blocks a caller hands to add_extension: extension blocks with the
\* number left at 0, set to 1, or set to a number of its choice; and a
\* payload block.
CallerBlocks ==
    {ExtensionBlock(t, n) : t \in ExtensionTypes, n \in 0..MaxBlockNumber}
    \cup {PayloadBlock(d) : d \in PayloadData}

\* bundle.add_extension(block)
AddExtension(block) ==
    /\ Len(bundle.extensions) < MaxExtensions
    /\ LET r == BundleAddExtension(bundle, block)
       IN  /\ bundle' = r.bundle
           /\ last_add' = <<[block |-> block, raised |-> r.raised,
                             before |-> bundle.extensions]>>
    /\ round_trip' = <<>>
    /\ encoded' = <<>>
    /\ UNCHANGED <<session_vars, layer_vars, codec_vars, received>>

\* Bundle.decode(bundle.encode())
EncodeDecode ==
    /\ round_trip = <<>>
    /\ encoded' = EncodeBlocks(bundle)
    /\ round_trip' = <<DecodeBlocks(EncodeBlocks(bundle))>>
    /\ UNCHANGED <<session_vars, layer_vars, codec_vars, bundle, last_add,
                   received>>

\* The CRC values a peer may have put in a payload block: the CRC-16 of the
\* block, and two others.
PeerCrcs(data) ==
    {CalculateBlockCrc(ZeroCrcBlock(data, CRC16), CRC16), <<0, 0>>, <<255, 255>>}

\* What a peer sends for a bundle with this payload: a primary block
\* without CRC, and a payload block with crc_type CRC16 whose array ends in
\* the byte string crc.
PeerBlocks(data, crc) ==
    <<<<INDEFINITE_ARRAY>>,
      [PrimaryToCborArray(PrimaryBlock(Ipn(2, 1), Ipn(1, 1))) EXCEPT ![3] = 0],
      Append(BlockToCborArray(PayloadBlock(data)), crc),
      <<BREAK>>>>

\* Bundle.decode(data) on bytes that came from a peer.
DecodeReceived(data, crc) ==
    /\ received = <<>>
    /\ received' = <<[data |-> data, crc |-> crc,
                      matches |-> crc = CalculateBlockCrc(
                                            ZeroCrcBlock(data, CRC16), CRC16),
                      result |-> DecodeBlocks(PeerBlocks(data, crc))]>>
    /\ UNCHANGED <<session_vars, layer_vars, codec_vars, bundle, last_add,
                   round_trip, encoded>>

InitBundle ==
    /\ CodecInit
    /\ ConnectionInit
    /\ LayerInit
    /\ \E destination \in BundleEids, source \in BundleEids, payload \in PayloadData :
          BundleInit(destination, source, payload)

NextBundle ==
    \/ \E block \in CallerBlocks : AddExtension(block)
    \/ EncodeDecode
    \/ \E data \in PayloadData : \E crc \in PeerCrcs(data) :
          DecodeReceived(data, crc)

SpecBundle == InitBundle /\ [][NextBundle]_vars

(* --------------------- making a primary block ------------------------- *)

BundleFlags == 0..3

\* A fragment field given to the constructor: None or a number.
FragmentValues == {NoneValue, 0, 4}

\* What follows the eight fixed elements of a decoded primary block array:
\* nothing, or elements that are null or numbers.
ArrayTails ==
    {<<>>} \cup {<<a>> : a \in FragmentValues}
           \cup {<<a, b>> : a \in FragmentValues, b \in FragmentValues}

\* The array of a primary block with the given flags and tail.
PrimaryArray(flags, tail) ==
    [PrimaryToCborArray(PrimaryBlock(Ipn(2, 1), Ipn(1, 1))) EXCEPT ![2] = flags]
    \o tail

\* PrimaryBlock(..., flags, fragment_offset, total_adu_length)
PrimaryConstruct ==
    /\ primary_in # <<>>
    /\ primary_in[1].how = "constructor"
    /\ primary_out = <<>>
    /\ primary_out' = <<PrimaryConstructed(primary_in[1].flags,
                                          primary_in[1].fragment_offset,
                                          primary_in[1].total_adu_length)>>
    /\ UNCHANGED <<base_vars, primary_in>>
    /\ CodecUnchangedExcept("prim")

\* PrimaryBlock.from_cbor_array(arr)
PrimaryDecode ==
    /\ primary_in # <<>>
    /\ primary_in[1].how = "from_cbor_array"
    /\ primary_out = <<>>
    /\ primary_out' = <<PrimaryFragmentFromArray(primary_in[1].arr)>>
    /\ UNCHANGED <<base_vars, primary_in>>
    /\ CodecUnchangedExcept("prim")

BaseInit ==
    /\ ConnectionInit
    /\ LayerInit
    /\ BundleInit(Ipn(2, 1), Ipn(1, 1), <<>>)

InitPrimary ==
    /\ BaseInit
    /\ CodecIdleExcept("prim")
    /\ primary_out = <<>>
    /\ \/ \E f \in BundleFlags, o \in FragmentValues, t \in FragmentValues :
             primary_in = <<[how |-> "constructor", flags |-> f,
                             fragment_offset |-> o, total_adu_length |-> t]>>
       \/ \E f \in BundleFlags, tail \in ArrayTails :
             primary_in = <<[how |-> "from_cbor_array",
                             arr |-> PrimaryArray(f, tail)]>>

NextPrimary ==
    \/ PrimaryConstruct
    \/ PrimaryDecode

SpecPrimary == InitPrimary /\ [][NextPrimary]_vars

(* ----------------------- the CRC of a block --------------------------- *)

\* The bytes a payload may hold.
CrcDataBytes == {0, 1, 104, 255}

CrcPayloads == UNION {[1..n -> CrcDataBytes] : n \in 0..MaxCrcData}

\* replace_crc_in_block(block, crc_type), then verify_block_crc on what it
\* returned.
ReplaceAndVerify ==
    /\ crc_in # <<>>
    /\ crc_out = <<>>
    /\ LET block == ReplaceCrcInBlock(crc_in[1].block, crc_in[1].crc_type)
       IN  crc_out' = <<[block |-> block,
                         verified |-> VerifyBlockCrc(block, crc_in[1].crc_type)]>>
    /\ UNCHANGED <<base_vars, crc_in>>
    /\ CodecUnchangedExcept("crc")

InitCrc ==
    /\ BaseInit
    /\ CodecIdleExcept("crc")
    /\ crc_out = <<>>
    /\ \E data \in CrcPayloads, t \in {CRC16, CRC32C} :
          crc_in = <<[block |-> ZeroCrcBlock(data, t), crc_type |-> t]>>

NextCrc == ReplaceAndVerify

SpecCrc == InitCrc /\ [][NextCrc]_vars

(* ------------------- encoding and decoding a value -------------------- *)

\* Integers at the ends of each argument size: 0, 23 | 24, 255 | 256,
\* 65535 | 65536, 2^32 - 1 | 2^32, 2^64 - 1, and the negative integers
\* whose arguments -1 - n are these.
CborMagnitudes ==
    {<<>>, <<23>>, <<24>>, <<255>>, <<1, 0>>, <<255, 255>>, <<1, 0, 0>>,
     <<255, 255, 255, 255>>, <<1, 0, 0, 0, 0>>,
     <<255, 255, 255, 255, 255, 255, 255, 255>>}

CborInts ==
    {IntV(<<0, m>>) : m \in CborMagnitudes}
    \cup {IntV(<<1, BigInc(m)>>) : m \in CborMagnitudes}

\* b'', b'\x00', b'\xff\x01', and 24 bytes (the first length that needs a
\* length byte).
CborByteStrings ==
    {BytesV(<<>>), BytesV(<<0>>), BytesV(<<255, 1>>), BytesV([i \in 1..24 |-> 97])}

\* '', 'A', and code points that take 2, 3 and 4 bytes in UTF-8.
CborTexts ==
    {TextV(<<>>), TextV(<<65>>), TextV(<<233>>), TextV(<<8364>>),
     TextV(<<128512>>), TextV(<<65, 233, 8364, 128512, 1114111>>)}

CborAtoms ==
    CborInts \cup CborByteStrings \cup CborTexts \cup {TrueV, FalseV, NoneV}

\* What is appended to a list or stored in a dict.
CborItems == {IntV(PyInt(24)), NoneV, TextV(<<233>>), BytesV(<<0>>)}

\* The keys stored in a dict.
CborKeys == {IntV(PyInt(1)), TrueV, TextV(<<65>>), IntV(PyInt(-1))}

RECURSIVE Nodes(_)
RECURSIVE NodesOfPairs(_)
\* The number of values in a value, itself included.
NodesOfPairs(pairs) ==
    IF pairs = {} THEN 0
    ELSE LET p == CHOOSE q \in pairs : TRUE
         IN  Nodes(p[2]) + NodesOfPairs(pairs \ {p})

Nodes(v) ==
    IF v.kind = "list"
    THEN 1 + NodesOfPairs({<<i, v.items[i]>> : i \in 1..Len(v.items)})
    ELSE IF v.kind = "map" THEN 1 + NodesOfPairs(v.pairs)
    ELSE 1

CanGrow ==
    /\ cbor_value # <<>>
    /\ cbor_out = <<>>
    /\ Nodes(cbor_value[1]) < MaxCborNodes

\* value = [value]
WrapInList ==
    /\ CanGrow
    /\ cbor_value' = <<ListV(<<cbor_value[1]>>)>>
    /\ UNCHANGED <<base_vars, cbor_data, cbor_out>>
    /\ CodecUnchangedExcept("cbor")

\* value.append(item)
ListAppend(item) ==
    /\ CanGrow
    /\ cbor_value[1].kind = "list"
    /\ cbor_value' = <<ListV(Append(cbor_value[1].items, item))>>
    /\ UNCHANGED <<base_vars, cbor_data, cbor_out>>
    /\ CodecUnchangedExcept("cbor")

\* value = {key: value}
WrapInMap(key) ==
    /\ CanGrow
    /\ cbor_value' = <<MapV({<<key, cbor_value[1]>>})>>
    /\ UNCHANGED <<base_vars, cbor_data, cbor_out>>
    /\ CodecUnchangedExcept("cbor")

\* value[key] = item
DictPut(key, item) ==
    /\ CanGrow
    /\ cbor_value[1].kind = "map"
    /\ cbor_value' = <<MapV(DictSet(cbor_value[1].pairs, key, item))>>
    /\ UNCHANGED <<base_vars, cbor_data, cbor_out>>
    /\ CodecUnchangedExcept("cbor")

\* cbor_decode(cbor_encode(value))
RoundTrip ==
    /\ cbor_value # <<>>
    /\ cbor_out = <<>>
    /\ cbor_data' = cbor_encode(cbor_value[1])
    /\ cbor_out' = <<cbor_decode(cbor_data')>>
    /\ UNCHANGED <<base_vars, cbor_value>>
    /\ CodecUnchangedExcept("cbor")

InitCborValue ==
    /\ BaseInit
    /\ CodecIdleExcept("cbor")
    /\ cbor_value \in {<<v>> : v \in CborAtoms}
    /\ cbor_data = <<>>
    /\ cbor_out = <<>>

NextCborValue ==
    \/ WrapInList
    \/ \E item \in CborItems : ListAppend(item)
    \/ \E key \in CborKeys : WrapInMap(key)
    \/ \E key \in CborKeys, item \in CborItems : DictPut(key, item)
    \/ RoundTrip

SpecCborValue == InitCborValue /\ [][NextCborValue]_vars

(* ------------------------- decoding any bytes ------------------------- *)

\* The bytes an input is made of: initial bytes of every major type, with
\* additional info 31 (0x1f, 0x3f, 0x5f, 0x9f), a one-byte argument (0x18),
\* short lengths (0x62, 0x80, 0x81, 0xa1), a tag (0xc0), true (0xf5), the
\* break (0xff), and 0x01.
DecoderBytes == {1, 24, 31, 63, 95, 98, 128, 129, 159, 161, 192, 245, 255}

\* One more byte of input arrives.
AppendByte(b) ==
    /\ cbor_value = <<>>
    /\ cbor_out = <<>>
    /\ Len(cbor_data) < MaxCborBytes
    /\ cbor_data' = Append(cbor_data, b)
    /\ UNCHANGED <<base_vars, cbor_value, cbor_out>>
    /\ CodecUnchangedExcept("cbor")

\* CBORDecoder(data).decode()
DecodeData ==
    /\ cbor_value = <<>>
    /\ cbor_out = <<>>
    /\ cbor_out' = <<cbor_decode(cbor_data)>>
    /\ UNCHANGED <<base_vars, cbor_value, cbor_data>>
    /\ CodecUnchangedExcept("cbor")

InitCborData ==
    /\ BaseInit
    /\ CodecIdleExcept("cbor")
    /\ cbor_value = <<>>
    /\ cbor_data = <<>>
    /\ cbor_out = <<>>

NextCborData ==
    \/ \E b \in DecoderBytes : AppendByte(b)
    \/ DecodeData

SpecCborData == InitCborData /\ [][NextCborData]_vars

(* ------------------- concurrent writes to one socket ------------------ *)

\* The threads that write on one session: the reader thread (0) sends
\* XFER_ACK from _handle_xfer_segment, the callers of send_bundle
\* (1..NThreads) send XFER_SEGMENT, and the thread in stop() sends
\* SESS_TERM.
ReaderThread == 0
StopThread == NThreads + 1
Writers == ReaderThread..StopThread

MessageOf(w) ==
    IF w = ReaderThread THEN XFER_ACK
    ELSE IF w = StopThread THEN SESS_TERM
    ELSE XFER_SEGMENT

\* The part of a message one send() call of sendall hands to the socket.
Part(w) == [writer |-> w, message |-> sending[w].begun, type |-> MessageOf(w)]

\* self.sock.sendall(msg) in send_bundle, _send_xfer_ack or
\* _send_session_term: no lock is taken; the socket takes the message in
\* one piece, or takes a first part and the thread stays in sendall for the
\* rest.
SendAll(w, parts) ==
    /\ ~transport_closed
    /\ sending[w].left = 0
    /\ sending[w].begun < (IF w = StopThread THEN 1 ELSE MaxWrites)
    /\ sending' = [sending EXCEPT ![w] = [begun |-> @.begun + 1, left |-> parts - 1]]
    /\ transport' = Append(transport,
                           [writer |-> w, message |-> sending[w].begun + 1,
                            type |-> MessageOf(w)])
    /\ UNCHANGED <<base_vars, transport_closed>>
    /\ CodecUnchangedExcept("send")

\* sendall goes on: the socket takes the next part of the message.
SendMore(w) ==
    /\ ~transport_closed
    /\ sending[w].left > 0
    /\ sending' = [sending EXCEPT ![w].left = @ - 1]
    /\ transport' = Append(transport, Part(w))
    /\ UNCHANGED <<base_vars, transport_closed>>
    /\ CodecUnchangedExcept("send")

\* stop(), after _send_session_term has returned: self.sock.close()
CloseSock ==
    /\ ~transport_closed
    /\ sending[StopThread].begun = 1
    /\ sending[StopThread].left = 0
    /\ transport_closed' = TRUE
    /\ UNCHANGED <<base_vars, sending, transport>>
    /\ CodecUnchangedExcept("send")

\* sendall on the closed socket raises OSError: the rest is not sent.
SendFails(w) ==
    /\ transport_closed
    /\ sending[w].left > 0
    /\ sending' = [sending EXCEPT ![w].left = 0]
    /\ UNCHANGED <<base_vars, transport, transport_closed>>
    /\ CodecUnchangedExcept("send")

InitSend ==
    /\ BaseInit
    /\ CodecIdleExcept("send")
    /\ sending = [w \in Writers |-> [begun |-> 0, left |-> 0]]
    /\ transport = <<>>
    /\ transport_closed = FALSE

NextSend ==
    \/ \E w \in Writers, parts \in 1..MaxSendParts : SendAll(w, parts)
    \/ \E w \in Writers : SendMore(w)
    \/ CloseSock
    \/ \E w \in Writers : SendFails(w)

SpecSend == InitSend /\ [][NextSend]_vars

(* --------------------- two nodes, both in start() --------------------- *)

Peers == {1, 2}
OtherPeer(p) == 3 - p

\* The EIDs a node may have: ipn:1.1, ipn:2.1, ipn:10.0 and dtn://a
PeerLocalEids == {Ipn(1, 1), Ipn(2, 1), Ipn(10, 0), Dtn(<<47, 47, 97>>)}

\* start() waiting for the peer's contact header before it sends its own.
PeerStart_AfterPeerHeader(p) ==
    /\ peer_pc[p] = "init"
    /\ channel[p] # <<>>
    /\ channel' = [channel EXCEPT ![OtherPeer(p)] = Append(@, ContactHeader)]
    /\ peer_pc' = [peer_pc EXCEPT ![p] = "recv_header"]
    /\ UNCHANGED <<base_vars, peer_eid, peer_remote>>
    /\ CodecUnchangedExcept("peers")

\* start(): _running = True, and _exchange_contact_headers sends the
\* contact header.
PeerStart(p) ==
    /\ peer_pc[p] = "init"
    /\ channel' = [channel EXCEPT ![OtherPeer(p)] = Append(@, ContactHeader)]
    /\ peer_pc' = [peer_pc EXCEPT ![p] = "recv_header"]
    /\ UNCHANGED <<base_vars, peer_eid, peer_remote>>
    /\ CodecUnchangedExcept("peers")

\* _exchange_contact_headers: _recv_exact(6) returns once the peer's six
\* bytes are there, and ContactHeader.decode checks them.
PeerRecvHeader(p) ==
    /\ peer_pc[p] = "recv_header"
    /\ channel[p] # <<>>
    /\ channel' = [channel EXCEPT ![p] = Tail(@)]
    /\ peer_pc' = [peer_pc EXCEPT ![p] =
                      IF /\ "magic" \in DOMAIN Head(channel[p])
                         /\ ContactHeaderValid(Head(channel[p]))
                      THEN "send_init" ELSE "failed"]
    /\ UNCHANGED <<base_vars, peer_eid, peer_remote>>
    /\ CodecUnchangedExcept("peers")

\* _exchange_session_init sends SessionInit(node_id=str(self.local_eid)),
\* the node_id as UTF-8.
PeerSendInit(p) ==
    /\ peer_pc[p] = "send_init"
    /\ channel' = [channel EXCEPT ![OtherPeer(p)] =
                      Append(@, SessionInit(Utf8EncodeText(EidStr(peer_eid[p]))))]
    /\ peer_pc' = [peer_pc EXCEPT ![p] = "recv_init"]
    /\ UNCHANGED <<base_vars, peer_eid, peer_remote>>
    /\ CodecUnchangedExcept("peers")

\* What _exchange_session_init makes of the message it reads: <<eid>>, or
\* <<>> where it raises (not a SESS_INIT, a node_id that is not UTF-8 or
\* not an EID).
RemoteEid(m) ==
    IF ~IsMsg(m, SESS_INIT) THEN <<>>
    ELSE CHOOSE eid \in
             {IF node_id = <<>> THEN <<>> ELSE EidParse(node_id[1]) :
                 node_id \in {Utf8Decode(m.node_id)}} : TRUE

\* _exchange_session_init: _recv_message returns the peer's SESS_INIT,
\* SessionInit.decode reads the node_id, EndpointID.parse gives remote_eid;
\* start() then starts the receive thread and returns.
PeerRecvInit(p) ==
    /\ peer_pc[p] = "recv_init"
    /\ channel[p] # <<>>
    /\ channel' = [channel EXCEPT ![p] = Tail(@)]
    /\ \E eid \in {RemoteEid(Head(channel[p]))} :
           /\ peer_remote' = [peer_remote EXCEPT ![p] = eid]
           /\ peer_pc' = [peer_pc EXCEPT ![p] =
                             IF eid = <<>> THEN "failed" ELSE "established"]
    /\ UNCHANGED <<base_vars, peer_eid>>
    /\ CodecUnchangedExcept("peers")

\* A step of node p's start().
PeerStep(p) ==
    \/ PeerStart(p)
    \/ PeerRecvHeader(p)
    \/ PeerSendInit(p)
    \/ PeerRecvInit(p)

InitPeers ==
    /\ BaseInit
    /\ CodecIdleExcept("peers")
    /\ peer_eid \in [Peers -> PeerLocalEids]
    /\ peer_pc = [p \in Peers |-> "init"]
    /\ peer_remote = [p \in Peers |-> <<>>]
    /\ channel = [p \in Peers |-> <<>>]

NextPeers == \E p \in Peers : PeerStep(p)

SpecPeers == InitPeers /\ [][NextPeers]_vars

\* Each node's start() runs in a thread of its own process, which the
\* scheduler runs whenever it can take a step: a send of a few bytes does
\* not block, and a receive returns once the bytes are there.
SpecPeersFair ==
    /\ SpecPeers
    /\ \A p \in Peers : WF_vars(PeerStep(p))

(* --------------------------- the accept thread ------------------------ *)

\* What an inbound peer does once connected: the whole handshake, a contact
\* header with a wrong magic, nothing at all, or a contact header and then
\* nothing.
InboundKinds == {"good", "bad_magic", "silent", "header_only"}

\* A peer dials the listening socket; the kernel completes the connection
\* and queues it for accept().
InboundConnects(kind) ==
    /\ server_sock = "open"
    /\ Len(inbound) < MaxInbound
    /\ inbound' = Append(inbound, kind)
    /\ UNCHANGED <<base_vars, accept_pc, handshakes>>
    /\ CodecUnchangedExcept("accept")

\* _accept_loop: accept() returns the oldest queued connection; the
\* connection is built and conn.start() runs in the accept thread, sends
\* the contact header and waits for the peer's.  (An accept() that times
\* out goes round the loop and changes nothing.)
AcceptConnection ==
    /\ layer_running
    /\ server_sock = "open"
    /\ accept_pc = "accept"
    /\ Len(handshakes) < Len(inbound)
    /\ handshakes' = Append(handshakes, "started")
    /\ accept_pc' = "recv_header"
    /\ UNCHANGED <<base_vars, inbound>>
    /\ CodecUnchangedExcept("accept")

\* conn.start() in the accept thread: _recv_exact(6) returns once the
\* peer's header is there; a wrong magic raises ValueError, which
\* _accept_loop catches and logs, then it loops.  Otherwise SESS_INIT is
\* sent and the peer's awaited.
AcceptRecvHeader ==
    /\ accept_pc = "recv_header"
    /\ inbound[Len(handshakes)] \in {"good", "bad_magic", "header_only"}
    /\ IF inbound[Len(handshakes)] = "bad_magic"
       THEN /\ handshakes' = [handshakes EXCEPT ![Len(handshakes)] = "failed"]
            /\ accept_pc' = "accept"
       ELSE /\ accept_pc' = "recv_init"
            /\ UNCHANGED handshakes
    /\ UNCHANGED <<base_vars, inbound>>
    /\ CodecUnchangedExcept("accept")

\* conn.start() in the accept thread: _recv_message returns the peer's
\* SESS_INIT, the receive thread is started, start() returns and the loop
\* goes back to accept().
AcceptRecvInit ==
    /\ accept_pc = "recv_init"
    /\ inbound[Len(handshakes)] = "good"
    /\ handshakes' = [handshakes EXCEPT ![Len(handshakes)] = "established"]
    /\ accept_pc' = "accept"
    /\ UNCHANGED <<base_vars, inbound>>
    /\ CodecUnchangedExcept("accept")

\* The peer the accept thread waits for closes its end: recv returns b'',
\* _recv_exact raises ConnectionError, _accept_loop logs it and loops.
InboundCloses ==
    /\ \/ accept_pc = "recv_header" /\ inbound[Len(handshakes)] = "silent"
       \/ accept_pc = "recv_init" /\ inbound[Len(handshakes)] = "header_only"
    /\ handshakes' = [handshakes EXCEPT ![Len(handshakes)] = "failed"]
    /\ accept_pc' = "accept"
    /\ UNCHANGED <<base_vars, inbound>>
    /\ CodecUnchangedExcept("accept")

\* A step of the accept thread.
AcceptThreadStep ==
    \/ AcceptConnection
    \/ AcceptRecvHeader
    \/ AcceptRecvInit

InitAccept ==
    /\ BaseInit
    /\ CodecIdleExcept("accept")
    /\ inbound = <<>>
    /\ accept_pc = "accept"
    /\ handshakes = <<>>

NextAccept ==
    \/ LayerStart
    \/ \E kind \in InboundKinds : InboundConnects(kind)
    \/ AcceptConnection
    \/ AcceptRecvHeader
    \/ AcceptRecvInit
    \/ InboundCloses

SpecAccept == InitAccept /\ [][NextAccept]_vars

\* The accept thread runs whenever it can take a step: accept() returns
\* when a connection is queued, and a receive returns once the bytes are
\* there.  Nothing obliges a peer to dial, or to close.
SpecAcceptFair == SpecAccept /\ WF_vars(AcceptThreadStep)

(* ------------------ first calls of a CRC function --------------------- *)

TablePoly(crc_type) == IF crc_type = CRC16 THEN Word(0, CRC16_POLY) ELSE CRC32C_POLY
TableInit(crc_type) == IF crc_type = CRC16 THEN Word(0, CRC16_INIT) ELSE CRC32C_INIT
TableXorOut(crc_type) ==
    IF crc_type = CRC16 THEN Word(0, CRC16_XOR_OUT) ELSE CRC32C_XOR_OUT

\* The table _init_crc16_table or _init_crc32c_table builds when it runs
\* alone.
CompleteTable(crc_type) ==
    [i \in 1..TABLE_SIZE |-> TableEntry(i - 1, TablePoly(crc_type))]

\* What the threads checksum: one byte that indexes the first entry of the
\* table, one that indexes the last, and two bytes.
TableData == {<<255>>, <<0>>, <<1, 104>>}

NoResult == [kind |-> "none", crc |-> Word(0, 0)]

\* crc16_x25(data) or crc32c(data) is called: _init_*_table() tests
\* "if TABLE is not None: return".
TableCheck(t) ==
    /\ crc_call[t].pc = "call"
    /\ crc_call' = [crc_call EXCEPT ![t].pc =
                       IF crc_table = <<>> THEN "reset" ELSE "lookup"]
    /\ UNCHANGED <<base_vars, table_type, crc_table>>
    /\ CodecUnchangedExcept("table")

\* TABLE = []
TableReset(t) ==
    /\ crc_call[t].pc = "reset"
    /\ crc_table' = <<<<>>>>
    /\ crc_call' = [crc_call EXCEPT ![t].pc = "fill", ![t].i = 0]
    /\ UNCHANGED <<base_vars, table_type>>
    /\ CodecUnchangedExcept("table")

\* for i in range(256): ... TABLE.append(crc), up to MaxFillChunk rounds
\* of the loop without another thread running in between; each append is
\* to the list the global names at that moment.
TableFill(t) ==
    /\ crc_call[t].pc = "fill"
    /\ LET i == crc_call[t].i
           n == IF TABLE_SIZE - i < MaxFillChunk THEN TABLE_SIZE - i
                ELSE MaxFillChunk
       IN  /\ crc_table' =
                 <<crc_table[1] \o
                   [k \in 1..n |-> TableEntry(i + k - 1, TablePoly(table_type))]>>
           /\ crc_call' = [crc_call EXCEPT
                              ![t].i = i + n,
                              ![t].pc = IF i + n = TABLE_SIZE THEN "lookup"
                                        ELSE "fill"]
    /\ UNCHANGED <<base_vars, table_type>>
    /\ CodecUnchangedExcept("table")

\* One round of "for byte in data: crc = TABLE[(crc ^ byte) & 0xFF] ^
\* (crc >> 8)", an IndexError where the list is shorter than the index, or
\* "return crc ^ XOR_OUT" after the last byte.
TableLookup(t) ==
    /\ crc_call[t].pc = "lookup"
    /\ LET c == crc_call[t]
           index == XorInt(c.crc[2], c.data[c.pos]) % 256
       IN  crc_call' =
              IF c.pos > Len(c.data)
              THEN [crc_call EXCEPT
                       ![t].pc = "done",
                       ![t].result = [kind |-> "value",
                                      crc |-> Xor(c.crc, TableXorOut(table_type))]]
              ELSE IF index + 1 > Len(crc_table[1])
              THEN [crc_call EXCEPT
                       ![t].pc = "done",
                       ![t].result = [kind |-> "IndexError", crc |-> Word(0, 0)]]
              ELSE [crc_call EXCEPT
                       ![t].crc = Xor(crc_table[1][index + 1], Shr(c.crc, 8)),
                       ![t].pos = c.pos + 1]
    /\ UNCHANGED <<base_vars, table_type, crc_table>>
    /\ CodecUnchangedExcept("table")

\* The interpreter starts with the table None; every thread is about to
\* make its first call, on data of its own.
InitTable ==
    /\ BaseInit
    /\ CodecIdleExcept("table")
    /\ table_type \in {CRC16, CRC32C}
    /\ crc_table = <<>>
    /\ \E data \in [Threads -> TableData] :
           crc_call = [t \in Threads |->
                          [pc |-> "call", i |-> 0, data |-> data[t], pos |-> 1,
                           crc |-> TableInit(table_type), result |-> NoResult]]

NextTable ==
    \E t \in Threads :
        \/ TableCheck(t)
        \/ TableReset(t)
        \/ TableFill(t)
        \/ TableLookup(t)

SpecTable == InitTable /\ [][NextTable]_vars

(* ------------------ what the frames read so far say ------------------- *)

IsSegment(f) == f.type = XFER_SEGMENT

Max(S) == CHOOSE x \in S : \A y \in S : y <= x

\* The frame that opened the transfer frame i of the log belongs to: i itself
\* when it carries START, else the latest earlier START of the same
\* transfer_id that no END of that transfer_id has closed; 0 if there is none.
TransferStart(log, i) ==
    IF HasFlag(log[i].flags, START)
    THEN i
    ELSE LET open == {j \in 1..(i - 1) :
                        /\ IsSegment(log[j])
                        /\ log[j].transfer_id = log[i].transfer_id
                        /\ HasFlag(log[j].flags, START)
                        /\ \A k \in j..(i - 1) :
                              (IsSegment(log[k])
                               /\ log[k].transfer_id = log[i].transfer_id)
                              => ~HasFlag(log[k].flags, END)}
         IN  IF open = {} THEN 0 ELSE Max(open)

\* The data of the segments of transfer_id id among frames a..b, in order.
RECURSIVE ConcatData(_, _, _, _)
ConcatData(log, id, a, b) ==
    IF a > b
    THEN <<>>
    ELSE (IF IsSegment(log[a]) /\ log[a].transfer_id = id
          THEN log[a].data ELSE <<>>)
         \o ConcatData(log, id, a + 1, b)

\* The bytes of the transfer that frame i ends.
TransferData(log, i) ==
    ConcatData(log, log[i].transfer_id, TransferStart(log, i), i)

\* The frames that end a transfer that was started, in arrival order.
CompletedEnds(log) ==
    SelectSeq([i \in 1..Len(log) |-> i],
              LAMBDA i : /\ IsSegment(log[i])
                         /\ HasFlag(log[i].flags, END)
                         /\ TransferStart(log, i) # 0)

\* The last segment of transfer_id id in the log, 0 if there is none.
LastSegment(log, id) ==
    LET S == {i \in 1..Len(log) : IsSegment(log[i]) /\ log[i].transfer_id = id}
    IN  IF S = {} THEN 0 ELSE Max(S)

AcksSent == SelectSeq(wire, LAMBDA w : IsMsg(w, XFER_ACK))

SessTermSent == \E i \in 1..Len(wire) : IsMsg(wire[i], SESS_TERM)

(* ------------------------------ claims -------------------------------- *)

SegmentsSent == SelectSeq(wire, LAMBDA w : IsMsg(w, XFER_SEGMENT))

\* C1: for any concurrent send_bundle calls the transfers appear on the
\* transport in the order the calls were accepted, the first transfer_id is
\* 1, and the transfer_ids on the wire are distinct and strictly increasing.
C1_OrderedDistinctTransferIds ==
    /\ \A i, j \in 1..Len(sent_order) : i < j => sent_order[i] < sent_order[j]
    /\ SegmentsSent # <<>> => SegmentsSent[1].transfer_id = 1
    /\ \A i, j \in 1..Len(SegmentsSent) :
          i < j => SegmentsSent[i].transfer_id < SegmentsSent[j].transfer_id

\* C2: every segment with END that closes a started transfer is answered by
\* exactly one XFER_ACK with that transfer_id and ack_len equal to the total
\* data length of the transfer's segments since its latest START; the bytes
\* handed to Bundle.decode are the in-order concatenation of those segments'
\* data; and the transfer's buffer is removed from the reassembly map.
C2_AckAndReassembly ==
    LET ends == CompletedEnds(rxlog)
    IN  /\ Len(AcksSent) = Len(ends)
        /\ Len(decode_log) = Len(ends)
        /\ \A k \in 1..Len(ends) :
              LET id == rxlog[ends[k]].transfer_id
                  data == TransferData(rxlog, ends[k])
              IN  /\ AcksSent[k].transfer_id = id
                  /\ AcksSent[k].length = Len(data)
                  /\ decode_log[k].transfer_id = id
                  /\ decode_log[k].data = data
        /\ \A id \in RxTransferIds :
              LET i == LastSegment(rxlog, id)
              IN  (i # 0 /\ HasFlag(rxlog[i].flags, END)) => id \notin DOMAIN pending

\* C2 witness: two transfers were interleaved and one of them, sent in more
\* than one segment, was completed and acknowledged.
C2_Witness ==
    /\ Len(rxlog) = 3
    /\ \A i \in 1..3 : IsSegment(rxlog[i])
    /\ rxlog[1].transfer_id = rxlog[3].transfer_id
    /\ rxlog[2].transfer_id # rxlog[1].transfer_id
    /\ HasFlag(rxlog[2].flags, START)
    /\ rxlog[3].flags = END
    /\ Len(AcksSent) = 1
    /\ AcksSent[1].length = 3
    /\ DOMAIN pending = {rxlog[2].transfer_id}

\* C3: a segment without START whose transfer_id has no buffer is a protocol
\* error: SESS_TERM(UNKNOWN) is sent and the session is closed.
C3_UnknownTransferTerminates ==
    \A i \in 1..Len(rxlog) :
        (/\ IsSegment(rxlog[i])
         /\ ~HasFlag(rxlog[i].flags, START)
         /\ TransferStart(rxlog, i) = 0)
        => /\ \E w \in 1..Len(wire) :
                 IsMsg(wire[w], SESS_TERM) /\ wire[w].reason = REASON_UNKNOWN
           /\ ~running

\* The bundles the completed transfers decode to, in the order of their ENDs.
RECURSIVE ExpectedDeliveries(_, _, _)
ExpectedDeliveries(log, ends, k) ==
    IF k > Len(ends)
    THEN <<>>
    ELSE (IF BundleDecode(TransferData(log, ends[k])) # DecodeError
          THEN <<BundleDecode(TransferData(log, ends[k]))>> ELSE <<>>)
         \o ExpectedDeliveries(log, ends, k + 1)

\* C4: the handler sees the decoded bundles in exactly the order in which
\* their END segments were received, each once.
C4_DeliveryOrder ==
    delivered = ExpectedDeliveries(rxlog, CompletedEnds(rxlog), 1)

\* C4 witness: two different bundles were delivered, the second one's
\* transfer having started first.
C4_Witness ==
    /\ Len(delivered) = 2
    /\ delivered[1] # delivered[2]
    /\ Len(rxlog) = 3
    /\ rxlog[1].flags = START
    /\ rxlog[2].flags = START + END
    /\ rxlog[3].flags = END

\* C5: every XFER_SEGMENT sent carries at most the segment_MRU the peer
\* advertised in its SESS_INIT, and the segments of each transfer_id begin
\* with START and finish with END.
C5_SegmentsWithinPeerMRU ==
    /\ \A i \in 1..Len(SegmentsSent) :
          SegmentsSent[i].length <= peer_init[1].segment_mru
    /\ \A i \in 1..Len(SegmentsSent) :
          LET same == {j \in 1..Len(SegmentsSent) :
                          SegmentsSent[j].transfer_id = SegmentsSent[i].transfer_id}
          IN  /\ HasFlag(SegmentsSent[CHOOSE j \in same : \A k \in same : j <= k].flags, START)
              /\ HasFlag(SegmentsSent[Max(same)].flags, END)

\* C6: after a parse error, a bad magic, an unsupported version or an unknown
\* message type (each a ValueError of start() or of the receive loop), the
\* session has sent SESS_TERM and is not running.
C6_ProtocolErrorSendsTermAndCloses ==
    last_error = "ValueError" => (SessTermSent /\ ~running)

\* C7: CLOSED is terminal: a closed session is not running, and a send_bundle
\* call made on a closed session transmits no XFER_SEGMENT.
C7_ClosedIsTerminal ==
    /\ Closed => ~running
    /\ \A t \in Threads : callers[t].after_close => callers[t].pc # "returned"

\* C8: the handshake steps happen in order: SESS_INIT is sent only after the
\* contact header was sent and a valid peer contact header was read; the
\* reader thread runs, remote_eid is set and frames are handled only after
\* the peer's SESS_INIT was read; an established session has done every step.
C8_HandshakeOrder ==
    /\ \A i \in 1..Len(wire) :
          IsMsg(wire[i], SESS_INIT) =>
              /\ i > 1
              /\ wire[1] = ContactHeader
              /\ peer_header # <<>>
              /\ peer_header[1].magic = TCPCL_MAGIC
              /\ peer_header[1].version = TCPCL_VERSION
    /\ (reader_pc # "none" \/ remote_eid # "None" \/ rxlog # <<>>) =>
          /\ peer_init # <<>>
          /\ peer_init[1].type = SESS_INIT
          /\ \E i \in 1..Len(wire) : IsMsg(wire[i], SESS_INIT)
    /\ start_pc = "returned" =>
          /\ reader_pc # "none"
          /\ remote_eid = peer_init[1].node_id
    /\ start_pc = "sess_init_sent" =>
          \E i \in 1..Len(wire) : IsMsg(wire[i], SESS_INIT)
    /\ start_pc \in {"init", "contact_sent"} => peer_init = <<>>
    /\ start_pc = "init" => (wire = <<>> /\ peer_header = <<>>)

\* C8 witness: the session is established and its reader has handled an
\* XFER_SEGMENT.
C8_Witness ==
    /\ start_pc = "returned"
    /\ remote_eid = "ipn:2.1"
    /\ \E i \in 1..Len(rxlog) : IsSegment(rxlog[i])
    /\ delivered # <<>>

\* C9: after SESS_TERM is received no later frame is handled, and once the
\* receive loop has ended on it the transport is closed.
C9_SessTermStopsAndCloses ==
    /\ \A i \in 1..Len(rxlog) : rxlog[i].type = SESS_TERM => i = Len(rxlog)
    /\ (/\ rxlog # <<>>
        /\ rxlog[Len(rxlog)].type = SESS_TERM
        /\ reader_pc = "exited")
       => sock_closed

\* C10: after XFER_REFUSE is received the session stays established and its
\* receive loop keeps running (unless stop() was called or the peer was
\* lost afterwards).
C10_RefuseKeepsSession ==
    (/\ rxlog # <<>>
     /\ rxlog[Len(rxlog)].type = XFER_REFUSE
     /\ stop_pc = "none"
     /\ last_error \notin {"ConnectionError", "OSError"})
    => (running /\ reader_pc # "exited")

\* C11: when a read of the receive loop meets EOF, at a frame boundary or
\* inside a frame, the loop ends and the session is no longer running; that
\* step writes nothing to the transport (no SESS_TERM), handles no frame and
\* invokes no handler; and unless stop() is called afterwards no SESS_TERM
\* is ever sent.
C11_EOFClosesSilently ==
    [][/\ (/\ reader_pc' = "exited"
            /\ last_error' = "ConnectionError") => ~running'
       /\ (/\ reader_pc' = "exited"
            /\ last_error' = "ConnectionError"
            /\ stop_pc' = "none") => ~SessTermSent'
       /\ (/\ reader_pc = "recv"
            /\ reader_pc' = "exited"
            /\ last_error' = "ConnectionError")
           => /\ wire' = wire
              /\ rxlog' = rxlog
              /\ decode_log' = decode_log
              /\ delivered' = delivered
              /\ pending' = pending]_vars

\* C11 witness: the peer was lost after frames had been handled: the reader
\* ended on EOF, stop() was never called and the session is not running.
C11_Witness ==
    /\ reader_pc = "exited"
    /\ last_error = "ConnectionError"
    /\ rxlog # <<>>
    /\ stop_pc = "none"
    /\ ~running

\* The completed transfers among the first k whose bytes decode to a bundle.
DecodedEnds(log, ends, k) ==
    {j \in 1..k : BundleDecode(TransferData(log, ends[j])) # DecodeError}

\* C12: when the reassembled bytes of a completed transfer do not decode,
\* the XFER_ACK for it was still sent, no XFER_REFUSE is ever sent, no
\* handler is invoked for it, the session stays established, and every
\* later transfer that decodes is delivered.
C12_DecodeFailureContinues ==
    LET ends == CompletedEnds(rxlog)
        good(k) == DecodedEnds(rxlog, ends, k)
    IN  /\ \A i \in 1..Len(wire) : ~IsMsg(wire[i], XFER_REFUSE)
        /\ Len(delivered) = Cardinality(good(Len(ends)))
        /\ \A k \in 1..Len(ends) :
              IF k \in good(k)
              THEN delivered[Cardinality(good(k))]
                      = BundleDecode(TransferData(rxlog, ends[k]))
              ELSE /\ Len(AcksSent) >= k
                   /\ AcksSent[k].transfer_id = rxlog[ends[k]].transfer_id
                   /\ (ends[k] = Len(rxlog) /\ last_error # "ConnectionError")
                         => (running /\ reader_pc # "exited")

\* C12 witness: a transfer that does not decode was acknowledged, and the
\* bundle of the transfer after it was delivered by the running session.
C12_Witness ==
    /\ Len(rxlog) = 2
    /\ rxlog[1] = Frame(XFER_SEGMENT, START + END, 1, <<BREAK>>)
    /\ rxlog[2] = Frame(XFER_SEGMENT, START + END, 2, <<INDEFINITE_ARRAY, 2, BREAK>>)
    /\ Len(AcksSent) = 2
    /\ delivered = <<2>>
    /\ running

\* The transfer_MRU this session advertised in the SESS_INIT it sent.
AdvertisedTransferMRU ==
    LET S == {i \in 1..Len(wire) : IsMsg(wire[i], SESS_INIT)}
    IN  wire[Max(S)].transfer_mru

C18_SendWithinPeerTransferMRU ==
    \A i \in 1..Len(SegmentsSent) :
        SegmentsSent[i].length <= peer_init[1].transfer_mru

\* C19: after Bundle construction and any add_extension calls, the bundle
\* has its payload block numbered 1 and extension blocks with pairwise
\* distinct numbers, all at least 2; and add_extension of a payload-type
\* block is rejected and leaves the extension list unchanged.
C19_BlockNumbersDistinct ==
    /\ bundle.payload.block_number = 1
    /\ \A i \in 1..Len(bundle.extensions) :
          /\ bundle.extensions[i].block_number >= 2
          /\ bundle.extensions[i].block_type # PAYLOAD
    /\ \A i, j \in 1..Len(bundle.extensions) :
          i # j => bundle.extensions[i].block_number
                      # bundle.extensions[j].block_number
    /\ (last_add # <<>> /\ last_add[1].block.block_type = PAYLOAD)
          => (last_add[1].raised /\ bundle.extensions = last_add[1].before)

\* C20: for every bundle built with Bundle.create and add_extension,
\* Bundle.decode(B.encode()) succeeds and has the same primary block fields,
\* the same payload bytes and the same extension blocks: no block is
\* dropped.
C20_RoundTripKeepsBlocks ==
    round_trip # <<>> =>
        /\ round_trip[1] # <<>>
        /\ round_trip[1][1].primary = bundle.primary
        /\ round_trip[1][1].payload.data = bundle.payload.data
        /\ Len(round_trip[1][1].extensions) = Len(bundle.extensions)
        /\ {round_trip[1][1].extensions[i] :
                i \in 1..Len(round_trip[1][1].extensions)}
              = {bundle.extensions[i] : i \in 1..Len(bundle.extensions)}

Live(c) == c.established /\ c.running /\ ~c.sock_closed

\* C14: the registry holds exactly the currently established sessions, keyed
\* by remote EID string: every established session, dialed or accepted, is
\* found under its remote EID, and every entry is an established session
\* with that remote EID.
C14_RegistryIsEstablishedSessions ==
    /\ \A i \in DOMAIN sessions :
          Live(sessions[i]) =>
              /\ sessions[i].remote_eid \in DOMAIN connections
              /\ Live(sessions[connections[sessions[i].remote_eid]])
    /\ \A e \in DOMAIN connections :
          /\ Live(sessions[connections[e]])
          /\ sessions[connections[e]].remote_eid = e

\* C15: the layer's send_bundle returns False, having written nothing,
\* exactly when no session is registered under the destination; otherwise
\* it writes the bundle on the registered session and returns True.
C15_SendResult ==
    last_send # <<>> =>
        /\ (last_send[1].result = "False") <=> ~last_send[1].registered
        /\ last_send[1].result = "False" => ~last_send[1].wrote
        /\ last_send[1].registered =>
              (last_send[1].result = "True" /\ last_send[1].wrote)
        /\ last_send[1].result = "True" => last_send[1].wrote

\* C16: once the layer's stop() has returned, the shutdown flag is set, the
\* listener is closed, and every session the layer established, dialed or
\* accepted, was sent SESS_TERM and has its transport closed.
C16_StopClosesEverySession ==
    layer_stopped =>
        /\ ~layer_running
        /\ server_sock # "open"
        /\ \A i \in DOMAIN sessions :
              sessions[i].established =>
                  (sessions[i].term_sent /\ sessions[i].sock_closed)

\* C21: every PrimaryBlock the constructor or from_cbor_array accepts has
\* both fragment fields when IS_FRAGMENT is set and neither when it is
\* clear; with IS_FRAGMENT set and a fragment field missing the
\* construction or decode fails, and so does a construction with a fragment
\* field present and IS_FRAGMENT clear.
C21_FragmentFieldsIffFlag ==
    primary_out # <<>> =>
        LET i == primary_in[1]
            o == primary_out[1]
        IN  /\ o.accepted =>
                  IF HasFlag(o.flags, IS_FRAGMENT)
                  THEN /\ o.fragment_offset # NoneValue
                       /\ o.total_adu_length # NoneValue
                  ELSE /\ o.fragment_offset = NoneValue
                       /\ o.total_adu_length = NoneValue
            /\ (/\ i.how = "constructor"
                /\ HasFlag(i.flags, IS_FRAGMENT)
                /\ (i.fragment_offset = NoneValue
                    \/ i.total_adu_length = NoneValue)) => ~o.accepted
            /\ (/\ i.how = "constructor"
                /\ ~HasFlag(i.flags, IS_FRAGMENT)
                /\ (i.fragment_offset # NoneValue
                    \/ i.total_adu_length # NoneValue)) => ~o.accepted
            /\ (/\ i.how = "from_cbor_array"
                /\ HasFlag(i.arr[2], IS_FRAGMENT)
                /\ (\/ Len(i.arr) < 10
                    \/ i.arr[9] = NoneValue
                    \/ i.arr[10] = NoneValue)) => ~o.accepted

\* C22: for a block encoded with a zeroed CRC field and crc_type 1 or 2,
\* once replace_crc_in_block has written the CRC of calculate_block_crc
\* big-endian into the trailing bytes, verify_block_crc on the result
\* returns true.
C22_VerifyAfterReplace ==
    crc_out # <<>> => crc_out[1].verified

\* The block array of an encoded bundle ends in a CRC byte string of the
\* size its crc_type asks for; crc_at is where the array has its crc_type
\* and fields is the number of elements before the CRC.
EndsInCrc(arr, crc_at, fields) ==
    arr[crc_at] # 0 =>
        /\ Len(arr) = fields + 1
        /\ Len(arr[fields + 1]) = CrcSize(arr[crc_at])

\* C23: every block Bundle.encode emits with crc_type other than NONE has a
\* CRC byte string (2 bytes for CRC16, 4 for CRC32C) as the last element of
\* its array, and Bundle.decode returns an error for an input in which
\* such a block's CRC does not match the block's content.
C23_CrcEmittedAndChecked ==
    /\ encoded # <<>> =>
          /\ EndsInCrc(encoded[2], 3, 8)
          /\ \A i \in 3..(Len(encoded) - 1) : EndsInCrc(encoded[i], 4, 5)
    /\ (received # <<>> /\ ~received[1].matches) => received[1].result = <<>>

\* C24: for every value v of the supported set (unsigned and negative
\* integers with arguments of up to 64 bits, byte strings, text strings,
\* lists, maps, true, false, null, nested), cbor_decode(cbor_encode(v))
\* equals v, and the decoder consumes exactly the bytes the encoder
\* produced.
C24_RoundTrip ==
    (cbor_value # <<>> /\ cbor_out # <<>>) =>
        /\ cbor_out[1].err = "none"
        /\ cbor_out[1].value = cbor_value[1]
        /\ cbor_out[1].pos = Len(cbor_data)

\* C24 witness: a list holding a dict was encoded and decoded back.
C24_Witness ==
    /\ cbor_value # <<>>
    /\ cbor_out # <<>>
    /\ cbor_value[1].kind = "list"
    /\ cbor_value[1].items[1].kind = "map"
    /\ cbor_out[1].value = cbor_value[1]
    /\ Len(cbor_data) > 2

\* The input breaks off inside an item: decoding it does not succeed, and
\* with one or two more bytes it would.
Truncated(data) ==
    /\ cbor_decode(data).err # "none"
    /\ \E s \in {<<b>> : b \in DecoderBytes}
                \cup {<<b, c>> : b \in DecoderBytes, c \in DecoderBytes} :
          cbor_decode(data \o s).err = "none"

\* C25: for every byte sequence CBORDecoder.decode returns a value or fails
\* with ValueError, and every truncated input, an indefinite-length array
\* without its break byte included, fails with the unexpected-end error
\* and with no other failure.
C25_ValueOrValueError ==
    (cbor_value = <<>> /\ cbor_out # <<>>) =>
        /\ cbor_out[1].err \in {"none", "UnexpectedEnd", "ValueError",
                                "UnicodeDecodeError"}
        /\ Truncated(cbor_data) => cbor_out[1].err = "UnexpectedEnd"

\* C30: an input whose initial byte has major type 0 decodes to a
\* non-negative integer or fails, one with major type 1 decodes to a
\* negative integer or fails, and additional info 31 on an integer major
\* type is rejected.
C30_IntegerSigns ==
    (cbor_value = <<>> /\ cbor_out # <<>> /\ cbor_data # <<>>) =>
        LET major_type == cbor_data[1] \div 32
            additional_info == cbor_data[1] % 32
            out == cbor_out[1]
        IN  /\ (major_type = UNSIGNED_INT /\ out.err = "none") =>
                  (out.value.kind = "int" /\ out.value.num[1] = 0)
            /\ (major_type = NEGATIVE_INT /\ out.err = "none") =>
                  (out.value.kind = "int" /\ out.value.num[1] = 1)
            /\ (major_type \in {UNSIGNED_INT, NEGATIVE_INT}
                /\ additional_info = AI_INDEFINITE) => out.err # "none"

\* C26: on one session the bytes of each message (XFER_SEGMENT of
\* send_bundle callers, XFER_ACK of the reader thread, SESS_TERM of stop())
\* are contiguous on the transport: between two parts of one message
\* there is no part of another message.
C26_MessagesContiguous ==
    \A i, j, k \in 1..Len(transport) :
        (/\ i < j
         /\ j < k
         /\ transport[i].writer = transport[k].writer
         /\ transport[i].message = transport[k].message)
        => (/\ transport[j].writer = transport[i].writer
            /\ transport[j].message = transport[i].message)

\* Both sessions are established, each with the other node's local EID as
\* its remote_eid.
BothEstablished ==
    \A p \in Peers :
        /\ peer_pc[p] = "established"
        /\ peer_remote[p] = <<peer_eid[OtherPeer(p)]>>

\* C27: two conforming peers joined by a reliable transport and both in
\* start() each send the contact header and then SESS_INIT without waiting
\* for the other, so neither blocks for ever and both sessions eventually
\* are ESTABLISHED with remote_eid equal to the peer's local EID.
C27_BothEstablish == <>BothEstablished

\* C27 witness: two nodes with different EIDs have both finished start().
C27_Witness ==
    /\ peer_pc # <<>>
    /\ BothEstablished
    /\ peer_eid[1] # peer_eid[2]
    /\ channel[1] = <<>>
    /\ channel[2] = <<>>

\* The n-th inbound connection is queued and accept() has not returned it.
InboundPending(n) == n <= Len(inbound) /\ n > Len(handshakes)

\* C28: while the layer runs, every inbound connection is eventually
\* accepted, and established when its peer does the handshake, whatever
\* the earlier inbound peers did (failed the handshake, or stayed silent).
C28_EveryInboundAccepted ==
    \A n \in 1..MaxInbound :
        /\ InboundPending(n) ~> (n <= Len(handshakes))
        /\ (InboundPending(n) /\ inbound[n] = "good")
               ~> (n <= Len(handshakes) /\ handshakes[n] = "established")

\* What a single-threaded call returns.
SingleThreaded(crc_type, data) ==
    IF crc_type = CRC16 THEN crc16_x25(data) ELSE crc32c(data)

\* C29: for every interleaving of two threads that both make their first
\* call of crc16_x25 (or crc32c), each read of the lookup table is of the
\* complete 256-entry table, and each call returns what a single-threaded
\* call returns on the same data.
C29_TableNeverPartial ==
    \A t \in DOMAIN crc_call :
        /\ (crc_call[t].pc = "lookup" /\ crc_call[t].pos <= Len(crc_call[t].data))
               => crc_table = <<CompleteTable(table_type)>>
        /\ crc_call[t].pc = "done"
               => crc_call[t].result =
                     [kind |-> "value",
                      crc |-> SingleThreaded(table_type, crc_call[t].data)]

====
